---- MODULE Spec2Model ----
(***************************************************************************)
(* Model of scripts/bootstrap-tangle.mjs, the bootstrap tangler.           *)
(*                                                                         *)
(* Representation.  A JavaScript string without newlines is a sequence of  *)
(* atoms; the atoms " ", "<", ">", "/", ".", "#!" and "," are the          *)
(* characters the code inspects, every other atom stands for a run of      *)
(* characters the code never looks into.  A string with newlines is the    *)
(* non-empty sequence of its lines (what split('\n') returns and what      *)
(* join('\n') consumes), so the empty string is << <<>> >>.                *)
(* Blocks are JavaScript objects shared by reference between allBlocks,    *)
(* the block index and the targets: the model keeps them in allBlocks and  *)
(* refers to them by position.                                             *)
(***************************************************************************)
EXTENDS Integers, Sequences, FiniteSets, TLC

VARIABLES
  pc,          \* position of the run
  orgFiles,    \* main: orgFiles, the documents named on the command line
  dryRun,      \* main: dryRun
  fileIdx,     \* main: position of the loop over orgFiles
  readErrors,  \* main: positions of the documents whose read was reported
  allBlocks,   \* main: allBlocks (the block objects)
  blockIndex,  \* main: blockIndex, name -> sequence of block positions
  targets,     \* main: targets, in insertion order of the Map
  targetIdx,   \* main: position of the loop over targets
  outputs,     \* main: the content generated for each target so far
  disk,        \* the files written: path -> content
  dirs,        \* the directories that exist
  cleanCache,  \* main: cleanCache
  cacheFiles,  \* the *.tsbuildinfo files under outDir
  exitCode,    \* process exit code, -1 while running
  stack,       \* expandNoweb: the call stack, innermost call last
  visited,     \* expandNoweb: the shared Set `visited`
  expanded,    \* expandNoweb: the value returned by the outermost call
  scanner      \* extractBlocks: the locals of the call in progress

mainVars == <<orgFiles, dryRun, fileIdx, readErrors, targets, targetIdx,
              outputs, disk, dirs, cleanCache, cacheFiles, exitCode>>
expandVars == <<stack, visited, expanded>>
vars == <<pc, orgFiles, dryRun, fileIdx, readErrors, allBlocks, blockIndex,
          targets, targetIdx, outputs, disk, dirs, cleanCache, cacheFiles,
          exitCode, stack, visited, expanded, scanner>>

(***************************************************************************)
(* Bounds of the model.                                                    *)
(***************************************************************************)
MaxBlocks == 3     \* blocks in the index of an expansion run
MaxDepth == 8      \* cap on nested expandNoweb calls explored

(***************************************************************************)
(* JavaScript values.                                                      *)
(***************************************************************************)
JsTrue == <<"#true">>            \* the boolean true
JsFalse == <<"#false">>          \* the boolean false
Undefined == <<"#undefined">>    \* undefined / null
EmptyStr == <<>>

Truthy(v) == v # JsFalse /\ v # Undefined /\ v # EmptyStr

\* args[key], undefined when the key is absent
Get(args, key) == IF key \in DOMAIN args THEN args[key] ELSE Undefined

\* a || b
OrElse(a, b) == IF Truthy(a) THEN a ELSE b

Drop(s, n) == SubSeq(s, n + 1, Len(s))
Take(s, n) == SubSeq(s, 1, n)

StartsWith(s, p) == Len(s) >= Len(p) /\ Take(s, Len(p)) = p

(***************************************************************************)
(* The locals of extractBlocks while no call is in progress.  i is the     *)
(* position of the next line (the code's i + 1); currentBlock is the empty *)
(* sequence for null and a one-element sequence for a block object.        *)
(***************************************************************************)
NoScan ==
  [lines |-> <<>>, i |-> 0, blocks |-> <<>>, currentName |-> Undefined,
   inBlock |-> FALSE, currentBlock |-> <<>>, inExampleBlock |-> FALSE,
   sourcePath |-> <<>>, fileProperties |-> <<>>]

(***************************************************************************)
(* The noweb pattern: leading whitespace, "<<", a name without ">", ">>",  *)
(* and the rest of the line as trailing text.                              *)
(***************************************************************************)
RECURSIVE LeadingSpace(_)
LeadingSpace(s) ==
  IF s # <<>> /\ s[1] = " " THEN 1 + LeadingSpace(Tail(s)) ELSE 0

RECURSIVE RunNotGt(_)
RunNotGt(s) ==
  IF s # <<>> /\ s[1] # ">" THEN 1 + RunNotGt(Tail(s)) ELSE 0

nowebMatch(line) ==
  LET n == LeadingSpace(line)
      r1 == Drop(line, n)
      r2 == Drop(r1, 2)
      m == RunNotGt(r2)
      r3 == Drop(r2, m)
  IN  IF /\ Len(r1) >= 2 /\ r1[1] = "<" /\ r1[2] = "<"
         /\ m >= 1
         /\ Len(r3) >= 2 /\ r3[1] = ">" /\ r3[2] = ">"
      THEN [ok |-> TRUE, leadingIndent |-> Take(line, n),
            refName |-> Take(r2, m), trailing |-> Drop(r3, 2)]
      ELSE [ok |-> FALSE, leadingIndent |-> <<>>,
            refName |-> <<>>, trailing |-> <<>>]

CircularLine(totalIndent, refName, trailing) ==
  totalIndent \o <<"/* ERROR: Circular reference to ">> \o refName
              \o <<" */">> \o trailing

LiteralLineDropsTrailing(totalIndent, refName, trailing) ==
  totalIndent \o <<"<", "<">> \o refName \o <<">", ">">>
LiteralLine(totalIndent, refName, trailing) ==
  totalIndent \o <<"<", "<">> \o refName \o <<">", ">">> \o trailing

(***************************************************************************)
(* buildBlockIndex                                                         *)
(***************************************************************************)
nowebRefOf(args) == OrElse(Get(args, "noweb-ref"), Get(args, "nowebRef"))

\* index.get(key); a missing key gives undefined, which the callers treat
\* like an empty list
IndexGet(index, key) == IF key \in DOMAIN index THEN index[key] ELSE <<>>

IndexPushFront(index, key, id) ==
  [k \in DOMAIN index \cup {key} |->
     IF k = key THEN <<id>> \o IndexGet(index, key) ELSE index[k]]

\* if (!index.has(key)) index.set(key, []); index.get(key).push(id)
IndexPush(index, key, id) ==
  [k \in DOMAIN index \cup {key} |->
     IF k = key THEN Append(IndexGet(index, key), id) ELSE index[k]]

IndexByName(index, block, id) ==
  IF Truthy(block.name) THEN IndexPush(index, block.name, id) ELSE index

IndexByNowebRefSkips(index, block, id) == index
IndexByNowebRef(index, block, id) ==
  LET nowebRef == nowebRefOf(block.headerArgs)
  IN  IF Truthy(nowebRef) /\ nowebRef # block.name
      THEN IndexPush(index, nowebRef, id)
      ELSE index

RECURSIVE buildFrom(_, _, _)
buildFrom(blocks, i, index) ==
  IF i > Len(blocks) THEN index
  ELSE buildFrom(blocks, i + 1,
         IndexByNowebRef(IndexByName(index, blocks[i], i), blocks[i], i))

buildBlockIndex(blocks) == buildFrom(blocks, 1, <<>>)

(***************************************************************************)
(* expandNoweb as a function: the string returned for `content`, as its    *)
(* sequence of lines.                                                      *)
(***************************************************************************)
\* result[result.length - 1] += trailing, done only if (trailing)
AppendTrailingToFirst(result, trailing) ==
  IF trailing # <<>>
  THEN [result EXCEPT ![1] = @ \o trailing]
  ELSE result
AppendTrailing(result, trailing) ==
  IF trailing # <<>>
  THEN [result EXCEPT ![Len(result)] = @ \o trailing]
  ELSE result

\* the '' pushed between two blocks of one name, not after the last
SeparatorAfterEach(i, n) == << <<>> >>
Separator(i, n) == IF i < n THEN << <<>> >> ELSE <<>>

\* visited.has(refName)
visitedHasNever(seen, refName) == FALSE
visitedHas(seen, refName) == refName \in seen

\* visited.add(refName)
visitedAddForgets(seen, refName) == seen
visitedAdd(seen, refName) == seen \cup {refName}

\* visited.delete(refName)
visitedDeleteKeeps(seen, refName) == seen
visitedDelete(seen, refName) == seen \ {refName}

\* indent + line
IndentLineDropsIndent(indent, line) == line
IndentLine(indent, line) == indent \o line

RECURSIVE expandNoweb(_, _, _, _, _)
RECURSIVE expandFrom(_, _, _, _, _, _, _)
RECURSIVE expandBlocks(_, _, _, _, _, _, _)

\* for (let i = 0; i < referencedBlocks.length; i++) { ... }
expandBlocks(ids, i, result, blocks, index, seen, totalIndent) ==
  IF i > Len(ids) THEN result
  ELSE expandBlocks(ids, i + 1,
         result \o expandNoweb(blocks[ids[i]].content, blocks, index, seen,
                               totalIndent)
                \o Separator(i, Len(ids)),
         blocks, index, seen, totalIndent)

\* for (const line of lines) { ... }
expandFrom(lines, i, result, blocks, index, seen, indent) ==
  IF i > Len(lines) THEN result
  ELSE
    LET line == lines[i]
        mt == nowebMatch(line)
        totalIndent == indent \o mt.leadingIndent
        referencedBlocks == IndexGet(index, mt.refName)
        next ==
          IF ~mt.ok THEN Append(result, IndentLine(indent, line))
          ELSE IF visitedHas(seen, mt.refName)
            THEN Append(result,
                        CircularLine(totalIndent, mt.refName, mt.trailing))
          ELSE IF Len(referencedBlocks) = 0
            THEN Append(result,
                        LiteralLine(totalIndent, mt.refName, mt.trailing))
          ELSE AppendTrailing(
                 expandBlocks(referencedBlocks, 1, result, blocks, index,
                              visitedAdd(seen, mt.refName), totalIndent),
                 mt.trailing)
    IN  expandFrom(lines, i + 1, next, blocks, index, seen, indent)

expandNoweb(content, blocks, index, seen, indent) ==
  expandFrom(content, 1, <<>>, blocks, index, seen, indent)

(***************************************************************************)
(* expandNoweb as a machine: one frame per active call, one step per line  *)
(* of content, per referenced block entered and per return.  A frame holds *)
(* the call's locals: lines, the position i of the next line, result,      *)
(* indent, and, while a reference site is being expanded, the locals of    *)
(* that loop (refName, totalIndent, trailing, the position k of the next   *)
(* referenced block).  site.start is result.length when the site began and *)
(* seps the positions of result holding a separator pushed at line 301;    *)
(* visitedAtCall is the content of the Set visited when the call was made  *)
(* (all three are bookkeeping the properties read, not program state).     *)
(***************************************************************************)
NoSite ==
  [active |-> FALSE, refName |-> <<>>, totalIndent |-> <<>>,
   trailing |-> <<>>, k |-> 0, start |-> 0]

NewFrame(content, indent) ==
  [lines |-> content, i |-> 1, result |-> <<>>, indent |-> indent,
   site |-> NoSite, seps |-> {}, visitedAtCall |-> visited]

Depth == Len(stack)
Top == stack[Depth]
AtLine == pc = "expand" /\ Depth >= 1 /\ ~Top.site.active
                        /\ Top.i <= Len(Top.lines)
CurMatch == nowebMatch(Top.lines[Top.i])
CurTotalIndent == Top.indent \o CurMatch.leadingIndent
CurReferenced == IndexGet(blockIndex, CurMatch.refName)
SiteReferenced == IndexGet(blockIndex, Top.site.refName)

\* line 310: result.push(indent + line)
PlainLine ==
  /\ AtLine /\ ~CurMatch.ok
  /\ stack' = [stack EXCEPT ![Depth].result =
                                Append(@, IndentLine(Top.indent, Top.lines[Top.i])),
                            ![Depth].i = @ + 1]
  /\ UNCHANGED <<pc, allBlocks, blockIndex, visited, expanded, mainVars, scanner>>

\* lines 277-280: the name is being expanded already
CircularReference ==
  /\ AtLine /\ CurMatch.ok
  /\ visitedHas(visited, CurMatch.refName)
  /\ stack' = [stack EXCEPT ![Depth].result =
                 Append(@, CircularLine(CurTotalIndent, CurMatch.refName,
                                        CurMatch.trailing)),
                            ![Depth].i = @ + 1]
  /\ UNCHANGED <<pc, allBlocks, blockIndex, visited, expanded, mainVars, scanner>>

\* lines 282-287: no block under the name
UnresolvedReference ==
  /\ AtLine /\ CurMatch.ok
  /\ ~visitedHas(visited, CurMatch.refName)
  /\ Len(CurReferenced) = 0
  /\ stack' = [stack EXCEPT ![Depth].result =
                 Append(@, LiteralLine(CurTotalIndent, CurMatch.refName,
                                       CurMatch.trailing)),
                            ![Depth].i = @ + 1]
  /\ UNCHANGED <<pc, allBlocks, blockIndex, visited, expanded, mainVars, scanner>>

\* line 290: visited.add(refName), the loop over referencedBlocks begins
BeginReference ==
  /\ AtLine /\ CurMatch.ok
  /\ ~visitedHas(visited, CurMatch.refName)
  /\ Len(CurReferenced) > 0
  /\ visited' = visitedAdd(visited, CurMatch.refName)
  /\ stack' = [stack EXCEPT ![Depth].site =
                 [active |-> TRUE, refName |-> CurMatch.refName,
                  totalIndent |-> CurTotalIndent,
                  trailing |-> CurMatch.trailing, k |-> 1,
                  start |-> Len(Top.result)]]
  /\ UNCHANGED <<pc, allBlocks, blockIndex, expanded, mainVars, scanner>>

\* line 293: the recursive call for referencedBlocks[k]
CallBlock ==
  /\ pc = "expand" /\ Depth >= 1 /\ Top.site.active
  /\ Top.site.k <= Len(SiteReferenced)
  /\ Depth < MaxDepth
  /\ stack' = Append(stack,
                NewFrame(allBlocks[SiteReferenced[Top.site.k]].content,
                         Top.site.totalIndent))
  /\ UNCHANGED <<pc, allBlocks, blockIndex, visited, expanded, mainVars, scanner>>

Returning == pc = "expand" /\ Depth >= 1 /\ ~Top.site.active
                           /\ Top.i > Len(Top.lines)

\* lines 314, 295-302: the call returns result.join('\n'); the caller splits
\* it, pushes the lines and, unless this was the last block, pushes ''
ReturnBlock ==
  /\ Returning /\ Depth > 1
  /\ LET caller == stack[Depth - 1]
         n == Len(IndexGet(blockIndex, caller.site.refName))
         base == Len(caller.result)
         pushed == Top.result \o Separator(caller.site.k, n)
         sepHere == IF caller.site.k < n
                    THEN {base + Len(Top.result) + 1} ELSE {}
     IN  stack' = [SubSeq(stack, 1, Depth - 1) EXCEPT
                     ![Depth - 1].result = @ \o pushed,
                     ![Depth - 1].seps =
                        @ \cup {base + j : j \in Top.seps} \cup sepHere,
                     ![Depth - 1].site.k = @ + 1]
  /\ UNCHANGED <<pc, allBlocks, blockIndex, visited, expanded, mainVars, scanner>>

\* lines 304-308: visited.delete(refName), trailing goes to the last line
EndReference ==
  /\ pc = "expand" /\ Depth >= 1 /\ Top.site.active
  /\ Top.site.k > Len(SiteReferenced)
  /\ visited' = visitedDelete(visited, Top.site.refName)
  /\ stack' = [stack EXCEPT ![Depth].result =
                                AppendTrailing(@, Top.site.trailing),
                            ![Depth].site = NoSite,
                            ![Depth].i = @ + 1]
  /\ UNCHANGED <<pc, allBlocks, blockIndex, expanded, mainVars, scanner>>

\* line 314 of the outermost call
ReturnTop ==
  /\ Returning /\ Depth = 1
  /\ expanded' = Top.result
  /\ pc' = "done"
  /\ UNCHANGED <<allBlocks, blockIndex, stack, visited, mainVars, scanner>>

NextExpand ==
  \/ PlainLine
  \/ CircularReference
  \/ UnresolvedReference
  \/ BeginReference
  \/ CallBlock
  \/ ReturnBlock
  \/ EndReference
  \/ ReturnTop

(***************************************************************************)
(* Inputs of an expansion run: a reference index built by buildBlockIndex  *)
(* from up to MaxBlocks blocks, and a content to expand with the defaults  *)
(* visited = new Set(), indent = ''.                                       *)
(***************************************************************************)
Ref(name) == <<"<", "<", name, ">", ">">>

MkBlock(name, args, content) ==
  [name |-> name, language |-> <<"ts">>, content |-> content,
   headerArgs |-> args, startLine |-> 0, sourcePath |-> <<"/", "x", ".", "org">>]

NoArgs == <<>>
NowebRefArg(name) == "noweb-ref" :> <<name>>

ExpandPool ==
  { MkBlock(<<"a">>, NoArgs, << <<"x">>, <<" ">> \o Ref("b") >>),
    MkBlock(<<"b">>, NoArgs, << Ref("a") \o <<";">> >>),
    MkBlock(Undefined, NowebRefArg("a"), << <<"y">> >>),
    MkBlock(<<"a">>, NowebRefArg("b"), << <<" ", " ">> \o Ref("a") >>),
    MkBlock(<<"b">>, NoArgs, << <<"z">>, <<>> >>),
    MkBlock(Undefined, NowebRefArg("b"), << <<" ">> \o Ref("c") \o <<"?">> >>),
    MkBlock(<<"c">>, NoArgs, << <<"v">> >>),
    MkBlock(<<"d">>, NoArgs, << Ref("c"), <<" ">> \o Ref("c") >>) }

ExpandTops ==
  { << Ref("a") >>,
    << <<" ", " ">> \o Ref("a") \o <<";">>, <<"w">> >>,
    << <<" ">> \o Ref("b"), Ref("a") >>,
    << Ref("d"), <<" ">> \o Ref("b") >> }

Injective(s) == \A i, j \in DOMAIN s : s[i] = s[j] => i = j

BlockLists(pool, n) ==
  UNION { { s \in [1..m -> pool] : Injective(s) } : m \in 0..n }

InitExpand ==
  /\ allBlocks \in BlockLists(ExpandPool, MaxBlocks)
  /\ blockIndex = buildBlockIndex(allBlocks)
  /\ visited = {}
  /\ \E content \in ExpandTops : stack = << NewFrame(content, <<>>) >>
  /\ expanded = << >>
  /\ pc = "expand"
  /\ orgFiles = <<>> /\ dryRun = FALSE /\ fileIdx = 0 /\ readErrors = {}
  /\ targets = <<>> /\ targetIdx = 0 /\ outputs = <<>>
  /\ disk = <<>> /\ dirs = {} /\ exitCode = -1
  /\ cleanCache = FALSE /\ cacheFiles = {}
  /\ scanner = NoScan

SpecExpand == InitExpand /\ [][NextExpand]_vars

\* the interpreter runs a call to its end: some step is taken while one can
SpecExpandFair == SpecExpand /\ WF_vars(NextExpand)

\* cross-check of the two renderings of expandNoweb
MachineAgrees ==
  pc = "done" =>
    expanded = expandNoweb(stack[1].lines, allBlocks, blockIndex, {}, <<>>)

(***************************************************************************)
(* extractBlocks: the block opened at a begin_src line.  A document is     *)
(* given by its path, its file properties (extractFileProperties: scope -> *)
(* args, the scope "*" being the document-global one) and its source       *)
(* blocks in document order, each with the name bound to it, the language  *)
(* and args of its own begin_src line (parseHeaderArgs), its content and   *)
(* the line of its begin_src.                                              *)
(***************************************************************************)
\* { ...a, ...b }
SpreadFirstWins(a, b) ==
  [k \in DOMAIN a \cup DOMAIN b |-> IF k \in DOMAIN a THEN a[k] ELSE b[k]]
Spread(a, b) ==
  [k \in DOMAIN a \cup DOMAIN b |-> IF k \in DOMAIN b THEN b[k] ELSE a[k]]

\* fileProperties[scope] || {}
PropsFor(fileProperties, scope) ==
  IF scope \in DOMAIN fileProperties THEN fileProperties[scope] ELSE NoArgs

Star == <<"*">>

\* line 142
mergeArgs(fileProperties, language, args) ==
  Spread(Spread(PropsFor(fileProperties, Star),
                PropsFor(fileProperties, language)), args)

\* lines 145-149
implicitTangleNo(args, mergedArgs) ==
  LET hasNowebRef == OrElse(Get(args, "noweb-ref"), Get(args, "nowebRef"))
      hasTangleInBlock == "tangle" \in DOMAIN args
  IN  IF Truthy(hasNowebRef) /\ ~hasTangleInBlock
      THEN Spread(mergedArgs, "tangle" :> <<"no">>)
      ELSE mergedArgs

\* lines 136-163
openBlock(src, sourcePath, fileProperties) ==
  [name |-> src.name, language |-> src.language, content |-> src.content,
   headerArgs |-> implicitTangleNo(src.args,
                    mergeArgs(fileProperties, src.language, src.args)),
   startLine |-> src.startLine, sourcePath |-> sourcePath]

extractBlocks(doc) ==
  [i \in 1..Len(doc.srcs) |-> openBlock(doc.srcs[i], doc.path, doc.props)]

(***************************************************************************)
(* Lines as the scanner and the header parser read them.  A line is a      *)
(* sequence of atoms: "#+" is the directive sigil, the atoms of Punct are  *)
(* single characters, every other atom is a run of word characters (a key  *)
(* such as noweb-ref, with its hyphen, is one atom).  The text of a        *)
(* document is the sequence of its lines after the line endings are        *)
(* normalised and the content is split (lines 98-99, 206).                 *)
(***************************************************************************)
Backtick == "backtick"       \* the atom of the backtick character
Punct ==
  {" ", ":", "\"", ".", "/", ",", Backtick, "#+", "#!", "<", ">", "-", "*"}

\* a run of \w characters
IsWordAtom(a) == a \notin Punct

\* a run of [\w-] characters
IsKeyAtom(a) == a \notin (Punct \ {"-"})

\* toLowerCase(), and the i flag of the patterns
Lower(a) ==
  CASE a = "BEGIN_SRC" -> "begin_src"
    [] a = "END_SRC" -> "end_src"
    [] a = "NAME" -> "name"
    [] a = "PROPERTY" -> "property"
    [] a = "Yes" -> "yes"
    [] a = "NO" -> "no"
    [] a = "T" -> "t"
    [] OTHER -> a

RECURSIVE trimStart(_)
trimStart(s) == IF s # <<>> /\ s[1] = " " THEN trimStart(Tail(s)) ELSE s

RECURSIVE trimEnd(_)
trimEnd(s) ==
  IF s # <<>> /\ s[Len(s)] = " " THEN trimEnd(Take(s, Len(s) - 1)) ELSE s

trim(s) == trimEnd(trimStart(s))

\* the length of the longest prefix of s without an atom of stops
RECURSIVE RunNotIn(_, _)
RunNotIn(s, stops) ==
  IF s # <<>> /\ s[1] \notin stops THEN 1 + RunNotIn(Tail(s), stops) ELSE 0

RECURSIVE IndexOf(_, _)
IndexOf(s, c) ==
  IF s = <<>> THEN 0
  ELSE IF s[1] = c THEN 1
  ELSE LET j == IndexOf(Tail(s), c) IN IF j = 0 THEN 0 ELSE j + 1

\* t.startsWith('#+' + word), case-insensitively
directiveIs(t, word) == Len(t) >= 2 /\ t[1] = "#+" /\ Lower(t[2]) = word

(***************************************************************************)
(* parseHeaderArgs                                                         *)
(***************************************************************************)
\* line 59: #+begin_src, whitespace, the language (a run of non-space),
\* and the rest of the line
headMatch(line) ==
  LET r1 == Drop(line, 2)
      n == LeadingSpace(r1)
      r2 == Drop(r1, n)
      m == RunNotIn(r2, {" "})
  IN  IF directiveIs(line, "begin_src") /\ n >= 1 /\ m >= 1
      THEN [ok |-> TRUE, language |-> Take(r2, m), rest |-> Drop(r2, m)]
      ELSE [ok |-> FALSE, language |-> <<>>, rest |-> <<>>]

\* lines 72-74
unquote(value) ==
  IF value[1] = "\"" /\ value[Len(value)] = "\""
  THEN SubSeq(value, 2, Len(value) - 1)
  ELSE value

\* lines 67-76: the loop over the matches of argRegex in s.  A match is a
\* colon, a key, whitespace and a value; the first alternative of the value,
\* a run without whitespace and colon, matches wherever the second (a quoted
\* string) could, so the value is always that run.
RECURSIVE argScan(_, _)
argScan(s, args) ==
  IF s = <<>> THEN args
  ELSE
    LET n == LeadingSpace(Drop(s, 2))
        v == Drop(s, 2 + n)
        m == RunNotIn(v, {" ", ":"})
    IN  IF /\ Len(s) >= 2 /\ s[1] = ":" /\ IsKeyAtom(s[2])
           /\ n >= 1 /\ m >= 1
        THEN argScan(Drop(v, m), Spread(args, s[2] :> unquote(Take(v, m))))
        ELSE argScan(Tail(s), args)

FlagWords == {"yes", "no", "t", "nil"}

\* lines 79-84: the loop over the matches of flagRegex in s.  A match is a
\* colon, a key, whitespace, one of the flag words and a word boundary.
RECURSIVE flagScan(_, _)
flagScan(s, args) ==
  IF s = <<>> THEN args
  ELSE
    LET n == LeadingSpace(Drop(s, 2))
        v == Drop(s, 2 + n)
    IN  IF /\ Len(s) >= 2 /\ s[1] = ":" /\ IsKeyAtom(s[2])
           /\ n >= 1 /\ v # <<>>
           /\ Lower(v[1]) \in FlagWords
           /\ (Len(v) = 1 \/ ~IsWordAtom(v[2]))
        THEN flagScan(Tail(v),
               Spread(args, s[2] :> (IF Lower(v[1]) \in {"yes", "t"}
                                     THEN JsTrue ELSE JsFalse)))
        ELSE flagScan(Tail(s), args)

parseHeaderArgs(line) ==
  LET h == headMatch(line)
      argsStr == trim(h.rest)
  IN  IF ~h.ok THEN [language |-> EmptyStr, args |-> NoArgs]
      ELSE [language |-> h.language,
            args |-> flagScan(argsStr, argScan(argsStr, NoArgs))]

(***************************************************************************)
(* extractFileProperties                                                   *)
(***************************************************************************)
\* line 212: #+PROPERTY:, whitespace, header-args, optionally a colon and a
\* language, whitespace, and a non-empty rest
propMatch(line) ==
  LET t == trim(line)
      n1 == LeadingSpace(Drop(t, 3))
      r == Drop(t, 3 + n1)
      hasLang == Len(r) >= 3 /\ r[2] = ":" /\ IsWordAtom(r[3])
      r2 == IF hasLang THEN Drop(r, 3) ELSE Drop(r, 1)
      n2 == LeadingSpace(r2)
      rest == Drop(r2, n2)
  IN  IF /\ Len(t) >= 3 /\ t[1] = "#+" /\ Lower(t[2]) = "property"
         /\ t[3] = ":" /\ n1 >= 1
         /\ r # <<>> /\ Lower(r[1]) = "header-args"
         /\ n2 >= 1 /\ rest # <<>>
      THEN [ok |-> TRUE, lang |-> IF hasLang THEN <<r[3]>> ELSE Star,
            argsStr |-> rest]
      ELSE [ok |-> FALSE, lang |-> <<>>, argsStr |-> <<>>]

\* lines 208-221
RECURSIVE propsFrom(_, _, _)
propsFrom(lines, i, props) ==
  IF i > Len(lines) THEN props
  ELSE
    LET pm == propMatch(lines[i])
        args == parseHeaderArgs(<<"#+", "begin_src", " ", "dummy", " ">>
                                  \o pm.argsStr).args
    IN  propsFrom(lines, i + 1,
          IF pm.ok
          THEN Spread(props,
                      pm.lang :> Spread(PropsFor(props, pm.lang), args))
          ELSE props)

extractFileProperties(lines) == propsFrom(lines, 1, <<>>)

(***************************************************************************)
(* extractBlocks, line by line: one step per iteration of the loop of      *)
(* lines 106-193, one action per branch of its body.  The fields           *)
(* contentStartLine and endLine of a block, which nothing reads, are left  *)
(* out.                                                                    *)
(***************************************************************************)
\* the branch of the loop body a line takes
lineKind(line, inBlock, inExampleBlock) ==
  LET trimmed == trim(line)
      isAtColumnZero == line # <<>> /\ line[1] = "#+"
  IN  IF ~inBlock /\ isAtColumnZero /\ directiveIs(trimmed, "begin_example")
        THEN "begin_example"
      ELSE IF ~inBlock /\ isAtColumnZero
                /\ directiveIs(trimmed, "end_example")
        THEN "end_example"
      ELSE IF inExampleBlock THEN "in_example"
      ELSE IF /\ isAtColumnZero /\ directiveIs(trimmed, "name")
              /\ Len(trimmed) >= 3 /\ trimmed[3] = ":" /\ ~inBlock
        THEN "name"
      ELSE IF isAtColumnZero /\ directiveIs(trimmed, "begin_src") /\ ~inBlock
        THEN "begin_src"
      ELSE IF isAtColumnZero /\ directiveIs(trimmed, "end_src") /\ inBlock
        THEN "end_src"
      ELSE IF inBlock THEN "content"
      ELSE "discard"

RECURSIVE stripAllLeadingCommas(_)
stripAllLeadingCommas(line) ==
  IF line # <<>> /\ line[1] = "," THEN stripAllLeadingCommas(Tail(line))
  ELSE line

\* lines 183-185
stripLeadingComma(line) ==
  IF line # <<>> /\ line[1] = "," THEN Tail(line) ELSE line

\* line 190: every backtick, comma, #+ becomes backtick, #+ (the pattern of
\* line 188 needs a newline, which a line does not hold)
RECURSIVE stripTemplateCommas(_)
stripTemplateCommas(line) ==
  IF line = <<>> THEN <<>>
  ELSE IF StartsWith(line, <<Backtick, ",", "#+">>)
    THEN <<Backtick, "#+">> \o stripTemplateCommas(Drop(line, 3))
  ELSE <<line[1]>> \o stripTemplateCommas(Tail(line))

\* lines 181-190
contentLineOf(line) == stripTemplateCommas(stripLeadingComma(line))

\* line 191: content += contentLine + '\n'
appendLine(content, contentLine) ==
  Take(content, Len(content) - 1)
    \o << content[Len(content)] \o contentLine, <<>> >>

\* line 170: content.replace(/\n$/, '')
removeTrailingNewline(content) ==
  IF Len(content) >= 2 /\ content[Len(content)] = <<>>
  THEN Take(content, Len(content) - 1)
  ELSE content

CurLine == scanner.lines[scanner.i]

AtKind(kind) ==
  /\ pc = "scan" /\ scanner.i <= Len(scanner.lines)
  /\ lineKind(CurLine, scanner.inBlock, scanner.inExampleBlock) = kind

\* lines 631-633: the document is read, its properties are extracted and
\* extractBlocks is entered
ScanFile ==
  /\ pc = "read" /\ fileIdx <= Len(orgFiles)
  /\ scanner' = [NoScan EXCEPT
                   !.lines = orgFiles[fileIdx].text,
                   !.i = 1,
                   !.sourcePath = orgFiles[fileIdx].path,
                   !.fileProperties =
                      extractFileProperties(orgFiles[fileIdx].text)]
  /\ pc' = "scan"
  /\ UNCHANGED <<allBlocks, blockIndex, mainVars, expandVars>>

BeginExampleIgnored ==
  /\ AtKind("begin_example")
  /\ scanner' = [scanner EXCEPT !.i = @ + 1]
  /\ UNCHANGED <<pc, allBlocks, blockIndex, mainVars, expandVars>>

\* lines 115-118
BeginExample ==
  /\ AtKind("begin_example")
  /\ scanner' = [scanner EXCEPT !.inExampleBlock = TRUE, !.i = @ + 1]
  /\ UNCHANGED <<pc, allBlocks, blockIndex, mainVars, expandVars>>

\* lines 119-122
EndExample ==
  /\ AtKind("end_example")
  /\ scanner' = [scanner EXCEPT !.inExampleBlock = FALSE, !.i = @ + 1]
  /\ UNCHANGED <<pc, allBlocks, blockIndex, mainVars, expandVars>>

\* lines 125-127
SkipInExample ==
  /\ AtKind("in_example")
  /\ scanner' = [scanner EXCEPT !.i = @ + 1]
  /\ UNCHANGED <<pc, allBlocks, blockIndex, mainVars, expandVars>>

\* lines 130-133
NameLine ==
  /\ AtKind("name")
  /\ scanner' = [scanner EXCEPT
                   !.currentName = trim(Drop(CurLine, IndexOf(CurLine, ":"))),
                   !.i = @ + 1]
  /\ UNCHANGED <<pc, allBlocks, blockIndex, mainVars, expandVars>>

BeginSrcKeepsName ==
  /\ AtKind("begin_src")
  /\ LET parsed == parseHeaderArgs(trim(CurLine))
         mergedArgs == implicitTangleNo(parsed.args,
                         mergeArgs(scanner.fileProperties, parsed.language,
                                   parsed.args))
     IN  scanner' = [scanner EXCEPT
                       !.currentBlock =
                          << [name |-> scanner.currentName,
                              language |-> parsed.language,
                              content |-> << <<>> >>,
                              headerArgs |-> mergedArgs,
                              startLine |-> scanner.i - 1,
                              sourcePath |-> scanner.sourcePath] >>,
                       !.inBlock = TRUE,
                       !.i = @ + 1]
  /\ UNCHANGED <<pc, allBlocks, blockIndex, mainVars, expandVars>>

\* lines 136-164
BeginSrc ==
  /\ AtKind("begin_src")
  /\ LET parsed == parseHeaderArgs(trim(CurLine))
         mergedArgs == implicitTangleNo(parsed.args,
                         mergeArgs(scanner.fileProperties, parsed.language,
                                   parsed.args))
     IN  scanner' = [scanner EXCEPT
                       !.currentBlock =
                          << [name |-> scanner.currentName,
                              language |-> parsed.language,
                              content |-> << <<>> >>,
                              headerArgs |-> mergedArgs,
                              startLine |-> scanner.i - 1,
                              sourcePath |-> scanner.sourcePath] >>,
                       !.inBlock = TRUE,
                       !.currentName = Undefined,
                       !.i = @ + 1]
  /\ UNCHANGED <<pc, allBlocks, blockIndex, mainVars, expandVars>>

\* lines 167-175
EndSrc ==
  /\ AtKind("end_src")
  /\ scanner' = [scanner EXCEPT
                   !.blocks =
                      Append(@, [scanner.currentBlock[1] EXCEPT
                                   !.content = removeTrailingNewline(@)]),
                   !.currentBlock = <<>>,
                   !.inBlock = FALSE,
                   !.i = @ + 1]
  /\ UNCHANGED <<pc, allBlocks, blockIndex, mainVars, expandVars>>

\* lines 178-192
ContentLine ==
  /\ AtKind("content")
  /\ scanner.currentBlock # <<>>
  /\ scanner' = [scanner EXCEPT
                   !.currentBlock[1].content =
                      appendLine(@, contentLineOf(CurLine)),
                   !.i = @ + 1]
  /\ UNCHANGED <<pc, allBlocks, blockIndex, mainVars, expandVars>>

\* line 193: no branch applies, the line is dropped
DiscardLine ==
  /\ AtKind("discard")
  /\ scanner' = [scanner EXCEPT !.i = @ + 1]
  /\ UNCHANGED <<pc, allBlocks, blockIndex, mainVars, expandVars>>

\* lines 195, 634: extractBlocks returns, main pushes the blocks
ScanReturn ==
  /\ pc = "scan" /\ scanner.i > Len(scanner.lines)
  /\ allBlocks' = allBlocks \o scanner.blocks
  /\ fileIdx' = fileIdx + 1
  /\ pc' = "read"
  /\ UNCHANGED <<orgFiles, dryRun, readErrors, blockIndex, targets,
                 targetIdx, outputs, disk, dirs, cleanCache, cacheFiles,
                 exitCode, expandVars, scanner>>

(***************************************************************************)
(* Paths.  A path is a string whose separators "/" and "." are atoms.      *)
(* resolve covers what the tangle values of the model need: an absolute    *)
(* path stands, a relative one without "." or ".." segments is appended to *)
(* the directory.  process.cwd() is "/".                                   *)
(***************************************************************************)
RECURSIVE LastIndexOf(_, _)
LastIndexOf(s, c) ==
  IF s = <<>> THEN 0
  ELSE IF s[Len(s)] = c THEN Len(s)
  ELSE LastIndexOf(Take(s, Len(s) - 1), c)

EndsWith(s, suffix) ==
  Len(s) >= Len(suffix) /\ Drop(s, Len(s) - Len(suffix)) = suffix

dirname(path) ==
  LET j == LastIndexOf(path, "/")
  IN  IF j = 0 THEN <<".">> ELSE IF j = 1 THEN <<"/">> ELSE Take(path, j - 1)

resolve(dir, rel) ==
  IF rel # <<>> /\ rel[1] = "/" THEN rel
  ELSE IF dir = <<"/">> THEN dir \o rel
  ELSE dir \o <<"/">> \o rel

\* relative(process.cwd(), path)
Relative(path) == IF path # <<>> /\ path[1] = "/" THEN Tail(path) ELSE path

\* sourcePath.replace(/\.org$/, '')
StripOrg(path) ==
  IF EndsWith(path, <<".", "org">>) THEN Take(path, Len(path) - 2) ELSE path

\* lines 326-335 (language names of the model are lower case already)
getExtensionForLanguage(lang) ==
  CASE lang = <<"typescript">> -> <<".", "ts">>
    [] lang = <<"javascript">> -> <<".", "js">>
    [] lang = <<"python">> -> <<".", "py">>
    [] lang = <<"rust">> -> <<".", "rs">>
    [] lang = <<"go">> -> <<".", "go">>
    [] lang = <<"java">> -> <<".", "java">>
    [] lang = <<"c">> -> <<".", "c">>
    [] lang = <<"cpp">> -> <<".", "cpp">>
    [] lang \in {<<"sh">>, <<"bash">>} -> <<".", "sh">>
    [] lang = <<"ruby">> -> <<".", "rb">>
    [] lang = <<"json">> -> <<".", "json">>
    [] lang = <<"yaml">> -> <<".", "yaml">>
    [] lang = <<"yml">> -> <<".", "yml">>
    [] lang = <<"markdown">> -> <<".", "md">>
    [] lang = <<"org">> -> <<".", "org">>
    [] OTHER -> <<".", "txt">>

(***************************************************************************)
(* groupByTarget                                                           *)
(***************************************************************************)
\* lines 412-418
skipsNowebRef(block) ==
  LET hasNowebRef == nowebRefOf(block.headerArgs)
      hasTangle == "tangle" \in DOMAIN block.headerArgs
  IN  Truthy(hasNowebRef) /\ ~hasTangle

\* line 421
skipsTangleOnlyNo(tangle) == tangle = <<"no">> \/ tangle = JsFalse
skipsTangle(tangle) ==
  ~Truthy(tangle) \/ tangle = <<"no">> \/ tangle = JsFalse

\* lines 424-435
targetPathOf(block) ==
  LET tangle == Get(block.headerArgs, "tangle")
  IN  IF tangle = JsTrue \/ tangle = <<"yes">>
      THEN StripOrg(block.sourcePath)
             \o getExtensionForLanguage(block.language)
      ELSE resolve(dirname(block.sourcePath), tangle)

\* lines 437-440
TargetPush(tgts, path, id) ==
  IF \E t \in DOMAIN tgts : tgts[t].path = path
  THEN [t \in DOMAIN tgts |->
          IF tgts[t].path = path
          THEN [tgts[t] EXCEPT !.blocks = Append(@, id)]
          ELSE tgts[t]]
  ELSE Append(tgts, [path |-> path, blocks |-> <<id>>])

RECURSIVE groupFrom(_, _, _)
groupFrom(blocks, i, tgts) ==
  IF i > Len(blocks) THEN tgts
  ELSE groupFrom(blocks, i + 1,
         IF \/ skipsNowebRef(blocks[i])
            \/ skipsTangle(Get(blocks[i].headerArgs, "tangle"))
         THEN tgts
         ELSE TargetPush(tgts, targetPathOf(blocks[i]), i))

groupByTarget(blocks) == groupFrom(blocks, 1, <<>>)

(***************************************************************************)
(* generateContent: the string returned, as its lines, and the blocks as   *)
(* the shebang scan leaves them (line 484 assigns block.content).          *)
(***************************************************************************)
\* targetPath.split('.').pop()
ExtOf(targetPath) == Drop(targetPath, LastIndexOf(targetPath, "."))

\* lines 342-380
getCommentPrefix(targetPath) ==
  LET ext == ExtOf(targetPath)
  IN  CASE ext \in {<<"py">>, <<"sh">>, <<"bash">>, <<"zsh">>, <<"fish">>,
                    <<"toml">>, <<"rb">>, <<"pl">>, <<"r">>} -> <<"#">>
        [] ext \in {<<"lisp">>, <<"el">>, <<"clj">>, <<"scm">>} -> <<";;">>
        [] ext \in {<<"lua">>, <<"sql">>, <<"hs">>} -> <<"--">>
        [] ext = <<"css">> -> <<"/*">>
        [] ext \in {<<"html">>, <<"xml">>} -> <<"<!--">>
        [] ext \in {<<"json">>, <<"yaml">>, <<"yml">>, <<"md">>, <<"org">>,
                    <<"wasm">>, <<"txt">>} -> <<>>
        [] OTHER -> <<"//">>

\* lines 387-398
getCommentSuffix(targetPath) ==
  LET ext == ExtOf(targetPath)
  IN  CASE ext = <<"css">> -> <<" */">>
        [] ext \in {<<"html">>, <<"xml">>} -> <<" -->">>
        [] OTHER -> <<>>

\* line 460
isOrgTarget(targetPath) == EndsWith(targetPath, <<".", "org">>)

\* lines 457-467
skipComments(ids, blocks, targetPath) ==
  \/ \E e \in {"json", "yaml", "yml", "md", "org", "wasm"} :
       EndsWith(targetPath, <<".", e>>)
  \/ \E i \in DOMAIN ids :
       Get(blocks[ids[i]].headerArgs, "comments") \in {<<"no">>, JsFalse}

\* line 484: block.content.substring(firstLine.length + 1)
WithoutFirstLine(content) ==
  IF Len(content) = 1 THEN << <<>> >> ELSE Tail(content)

\* lines 472-487: the value of shebang and the blocks after the loop
RECURSIVE shebangScan(_, _, _)
shebangScan(ids, i, blocks) ==
  IF i > Len(ids) THEN [shebang |-> Undefined, blocks |-> blocks]
  ELSE
    LET block == blocks[ids[i]]
        firstLine == block.content[1]
    IN  IF Truthy(Get(block.headerArgs, "shebang"))
        THEN [shebang |-> block.headerArgs["shebang"], blocks |-> blocks]
        ELSE IF Truthy(firstLine) /\ StartsWith(firstLine, <<"#!">>)
        THEN [shebang |-> firstLine,
              blocks |-> [blocks EXCEPT ![ids[i]].content =
                                          WithoutFirstLine(@)]]
        ELSE shebangScan(ids, i + 1, blocks)

Banner ==
  <<" This file is auto-generated by organjsm tangle. Do not edit directly.">>

RECURSIVE JoinComma(_)
JoinComma(strs) ==
  IF strs = <<>> THEN <<>>
  ELSE IF Len(strs) = 1 THEN strs[1]
  ELSE strs[1] \o <<", ">> \o JoinComma(Tail(strs))

RECURSIVE relativeSourcesOfAll(_, _, _, _)
relativeSourcesOfAll(ids, i, blocks, acc) ==
  IF i > Len(blocks) THEN acc
  ELSE LET r == Relative(blocks[i].sourcePath)
       IN  relativeSourcesOfAll(ids, i + 1, blocks,
             IF \E j \in DOMAIN acc : acc[j] = r THEN acc ELSE Append(acc, r))

\* [...new Set(blocks.map(b => relative(process.cwd(), b.sourcePath)))]
RECURSIVE relativeSources(_, _, _, _)
relativeSources(ids, i, blocks, acc) ==
  IF i > Len(ids) THEN acc
  ELSE LET r == Relative(blocks[ids[i]].sourcePath)
       IN  relativeSources(ids, i + 1, blocks,
             IF \E j \in DOMAIN acc : acc[j] = r THEN acc ELSE Append(acc, r))

\* lines 497-502
headerParts(ids, blocks, prefix, suffix) ==
  << prefix \o Banner \o suffix,
     prefix \o <<" Source: ">>
            \o JoinComma(relativeSources(ids, 1, blocks, <<>>)) \o suffix,
     <<>> >>

\* line 512
expandedOf(block, blocks, index, targetPath) ==
  IF isOrgTarget(targetPath) THEN block.content
  ELSE expandNoweb(block.content, blocks, index, {}, <<>>)

\* lines 504-520
RECURSIVE blockParts(_, _, _, _, _, _, _)
blockParts(ids, i, blocks, index, targetPath, framed, parts) ==
  IF i > Len(ids) THEN parts
  ELSE
    LET block == blocks[ids[i]]
        prefix == getCommentPrefix(targetPath)
        suffix == getCommentSuffix(targetPath)
        link == IF framed
                THEN << prefix \o <<" [[file:">> \o Relative(block.sourcePath)
                          \o <<"::", ToString(block.startLine + 1), "]]">>
                          \o suffix >>
                ELSE <<>>
        footer == IF framed
                  THEN << prefix \o <<" ">>
                            \o OrElse(block.name, <<"unnamed">>)
                            \o <<" ends here">> \o suffix,
                          <<>> >>
                  ELSE <<>>
    IN  blockParts(ids, i + 1, blocks, index, targetPath, framed,
          parts \o link \o expandedOf(block, blocks, index, targetPath)
                \o footer)

generateContent(ids, blocks, index, targetPath) ==
  LET scan == shebangScan(ids, 1, blocks)
      prefix == getCommentPrefix(targetPath)
      suffix == getCommentSuffix(targetPath)
      framed == ~skipComments(ids, blocks, targetPath) /\ Truthy(prefix)
      first == IF Truthy(scan.shebang) THEN << scan.shebang >> ELSE <<>>
      header == IF framed THEN headerParts(ids, scan.blocks, prefix, suffix)
                ELSE <<>>
  IN  [content |-> blockParts(ids, 1, scan.blocks, index, targetPath, framed,
                              first \o header),
       blocks |-> scan.blocks]

(***************************************************************************)
(* main                                                                    *)
(***************************************************************************)
\* lines 629-638: the document is read and scanned
ReadFile ==
  /\ pc = "read" /\ fileIdx <= Len(orgFiles)
  /\ allBlocks' = allBlocks \o extractBlocks(orgFiles[fileIdx])
  /\ fileIdx' = fileIdx + 1
  /\ UNCHANGED <<pc, orgFiles, dryRun, readErrors, blockIndex, targets,
                 targetIdx, outputs, disk, dirs, cleanCache, cacheFiles,
                 exitCode, expandVars, scanner>>

ReadFileFailsAborts ==
  /\ pc = "read" /\ fileIdx <= Len(orgFiles)
  /\ readErrors' = readErrors \cup {fileIdx}
  /\ pc' = "exit"
  /\ exitCode' = 1
  /\ UNCHANGED <<orgFiles, dryRun, fileIdx, allBlocks, blockIndex, targets,
                 targetIdx, outputs, disk, dirs, cleanCache, cacheFiles,
                 expandVars, scanner>>

\* lines 639-641: readFileSync throws, the error is reported
ReadFileFails ==
  /\ pc = "read" /\ fileIdx <= Len(orgFiles)
  /\ readErrors' = readErrors \cup {fileIdx}
  /\ fileIdx' = fileIdx + 1
  /\ UNCHANGED <<pc, orgFiles, dryRun, allBlocks, blockIndex, targets,
                 targetIdx, outputs, disk, dirs, cleanCache, cacheFiles,
                 exitCode, expandVars, scanner>>

\* line 647
BuildIndex ==
  /\ pc = "read" /\ fileIdx > Len(orgFiles)
  /\ blockIndex' = buildBlockIndex(allBlocks)
  /\ pc' = "group"
  /\ UNCHANGED <<orgFiles, dryRun, fileIdx, readErrors, allBlocks, targets,
                 targetIdx, outputs, disk, dirs, cleanCache, cacheFiles,
                 exitCode, expandVars, scanner>>

\* line 651
GroupTargets ==
  /\ pc = "group"
  /\ targets' = groupByTarget(allBlocks)
  /\ targetIdx' = 1
  /\ pc' = "write"
  /\ UNCHANGED <<orgFiles, dryRun, fileIdx, readErrors, allBlocks,
                 blockIndex, outputs, disk, dirs, cleanCache, cacheFiles,
                 exitCode, expandVars, scanner>>

AtTarget == pc = "write" /\ targetIdx <= Len(targets)
CurTarget == targets[targetIdx]
CurGenerated ==
  generateContent(CurTarget.blocks, allBlocks, blockIndex, CurTarget.path)
Generated ==
  /\ allBlocks' = CurGenerated.blocks
  /\ outputs' = Append(outputs, [path |-> CurTarget.path,
                                 content |-> CurGenerated.content])
  /\ UNCHANGED <<orgFiles, fileIdx, readErrors, blockIndex, targets, dryRun,
                 cleanCache, cacheFiles, expandVars, scanner>>

DryRunTargetWrites ==
  /\ AtTarget /\ dryRun
  /\ Generated
  /\ disk' = [q \in DOMAIN disk \cup {CurTarget.path} |->
                IF q = CurTarget.path THEN CurGenerated.content ELSE disk[q]]
  /\ targetIdx' = targetIdx + 1
  /\ UNCHANGED <<pc, dirs, exitCode>>

\* lines 657-661
DryRunTarget ==
  /\ AtTarget /\ dryRun
  /\ Generated
  /\ targetIdx' = targetIdx + 1
  /\ UNCHANGED <<pc, disk, dirs, exitCode>>

\* lines 657, 663-671
WriteTarget ==
  /\ AtTarget /\ ~dryRun
  /\ Generated
  /\ dirs' = dirs \cup {dirname(CurTarget.path)}
  /\ disk' = [q \in DOMAIN disk \cup {CurTarget.path} |->
                IF q = CurTarget.path THEN CurGenerated.content ELSE disk[q]]
  /\ targetIdx' = targetIdx + 1
  /\ UNCHANGED <<pc, exitCode>>

\* lines 657, 665 or 667 throw: main() rejects, lines 685-688 exit with 1
WriteTargetFails ==
  /\ AtTarget /\ ~dryRun
  /\ Generated
  /\ \/ dirname(CurTarget.path) \notin dirs /\ dirs' = dirs
     \/ dirs' = dirs \cup {dirname(CurTarget.path)}
  /\ pc' = "exit"
  /\ exitCode' = 1
  /\ UNCHANGED <<disk, targetIdx>>

\* lines 675-683; cleanTsBuildInfo deletes what it can (lines 576-583)
Finish ==
  /\ pc = "write" /\ targetIdx > Len(targets)
  /\ IF ~dryRun /\ cleanCache
     THEN \E kept \in SUBSET cacheFiles : cacheFiles' = kept
     ELSE cacheFiles' = cacheFiles
  /\ pc' = "done"
  /\ exitCode' = 0
  /\ UNCHANGED <<orgFiles, dryRun, fileIdx, readErrors, allBlocks,
                 blockIndex, targets, targetIdx, outputs, disk, dirs,
                 cleanCache, expandVars, scanner>>

(***************************************************************************)
(* main as a function of the documents that are read: the contents         *)
(* generated for the targets, in the order of the loop over targets, each  *)
(* call of generateContent seeing the blocks as the calls before it left   *)
(* them.                                                                   *)
(***************************************************************************)
\* lines 627-642
RECURSIVE blocksOf(_)
blocksOf(files) ==
  IF files = <<>> THEN <<>>
  ELSE extractBlocks(Head(files)) \o blocksOf(Tail(files))

\* lines 656-658
RECURSIVE generateAll(_, _, _, _, _)
generateAll(tgts, t, blocks, index, outs) ==
  IF t > Len(tgts) THEN outs
  ELSE LET g == generateContent(tgts[t].blocks, blocks, index, tgts[t].path)
       IN  generateAll(tgts, t + 1, g.blocks, index,
                       Append(outs, [path |-> tgts[t].path,
                                     content |-> g.content]))

\* lines 627-658
tangleAll(files) ==
  LET blocks == blocksOf(files)
  IN  generateAll(groupByTarget(blocks), 1, blocks, buildBlockIndex(blocks),
                  <<>>)

NextScan ==
  \/ ReadFile
  \/ ReadFileFails
  \/ BuildIndex
  \/ GroupTargets

Next ==
  \/ ReadFile
  \/ ReadFileFails
  \/ BuildIndex
  \/ GroupTargets
  \/ DryRunTarget
  \/ WriteTarget
  \/ WriteTargetFails
  \/ Finish

(***************************************************************************)
(* Inputs of a run of main: up to MaxFiles documents of a library, in any  *)
(* order.  The library holds a script whose first block starts with a #!   *)
(* line and whose second block carries :shebang; a document that pulls in  *)
(* a named block and a noweb-ref fragment; a document with an .org target  *)
(* and a nested block that also references itself; a document whose file   *)
(* properties set both :tangle and :noweb-ref; and a document tangling     *)
(* into a new directory.                                                   *)
(***************************************************************************)
MaxFiles == 2

MkSrc(name, language, args, content, startLine) ==
  [name |-> name, language |-> language, args |-> args, content |-> content,
   startLine |-> startLine]

MkDoc(base, props, srcs) ==
  [path |-> <<"/", "p", "/", base, ".", "org">>, props |-> props,
   srcs |-> srcs]

Tangle(path) == "tangle" :> path
Frag == <<"frag">>

ToolDoc ==
  MkDoc("tool", NoArgs,
    << MkSrc(<<"s">>, <<"sh">>, Tangle(<<"run">>),
             << <<"#!", "/bin/sh">>, <<"echo">> >>, 2),
       MkSrc(Undefined, <<"sh">>,
             Spread(Tangle(<<"run">>), "shebang" :> <<"#!", "/bin/zsh">>),
             << <<"two">> >>, 7) >>)

UseDoc ==
  MkDoc("use", NoArgs,
    << MkSrc(Undefined, <<"text">>, Tangle(<<"b", ".", "txt">>),
             << Ref("s"), <<" ">> \o Ref("frag") \o <<";">> >>, 1),
       MkSrc(Undefined, <<"text">>, "noweb-ref" :> Frag,
             << <<"f1">> >>, 6) >>)

NestDoc ==
  MkDoc("nest", NoArgs,
    << MkSrc(Undefined, <<"org">>, Tangle(<<"t", ".", "org">>),
             << Ref("frag") >>, 1),
       MkSrc(<<"mid">>, <<"typescript">>, NoArgs,
             << <<" ">> \o Ref("frag"), <<"m">>, Ref("mid") >>, 5),
       MkSrc(Undefined, <<"typescript">>, Tangle(JsTrue),
             << Ref("mid") >>, 10) >>)

InheritDoc ==
  MkDoc("inh", Star :> Spread(Tangle(<<"lib", ".", "sh">>),
                              "noweb-ref" :> Frag),
    << MkSrc(Undefined, <<"sh">>, NoArgs,
             << <<"#!", "/bin/inh">>, <<"i">> >>, 2),
       MkSrc(Undefined, <<"sh">>, "noweb-ref" :> Frag,
             << <<"f2">> >>, 7) >>)

PyDoc ==
  MkDoc("py", <<"python">> :> ("comments" :> <<"no">>),
    << MkSrc(Undefined, <<"python">>,
             Spread(Tangle(<<"out", "/", "k", ".", "py">>),
                    "shebang" :> <<"#!", "/usr/bin/python">>),
             << <<"#!", "x">>, <<"k">> >>, 3),
       MkSrc(Undefined, <<"python">>, Tangle(<<"out", "/", "k", ".", "py">>),
             << <<" ", " ">> \o Ref("s") >>, 8) >>)

Library == {ToolDoc, UseDoc, NestDoc, InheritDoc, PyDoc}

InitRun(files) ==
  /\ orgFiles = files
  /\ fileIdx = 1
  /\ readErrors = {}
  /\ allBlocks = <<>>
  /\ blockIndex = <<>>
  /\ targets = <<>>
  /\ targetIdx = 0
  /\ outputs = <<>>
  /\ disk = <<>>
  /\ dirs = {<<"/">>, <<"/", "p">>}
  /\ cacheFiles = {<<"dist", "/", "tsconfig", ".", "tsbuildinfo">>}
  /\ exitCode = -1
  /\ pc = "read"
  /\ stack = <<>> /\ visited = {} /\ expanded = <<>>
  /\ scanner = NoScan

Init ==
  /\ \E files \in BlockLists(Library, MaxFiles) :
       Len(files) >= 1 /\ InitRun(files)
  /\ dryRun \in BOOLEAN
  /\ cleanCache \in BOOLEAN

Spec == Init /\ [][Next]_vars

(***************************************************************************)
(* Inputs of the scan of one document with one block, for every            *)
(* combination of global, language-scoped and block-local values of        *)
(* tangle, noweb-ref and nowebRef.                                         *)
(***************************************************************************)
Opt(key, value) == IF value = Undefined THEN NoArgs ELSE key :> value

TangleChoices == {Undefined, <<"a", ".", "ts">>, <<"b", ".", "ts">>, JsFalse}
NowebRefChoices == {Undefined, Frag, JsFalse}

PropChoices ==
  { Spread(Opt("tangle", t), Opt("noweb-ref", n)) :
      t \in TangleChoices, n \in NowebRefChoices }

LocalChoices ==
  { Spread(a, Opt("nowebRef", r)) : a \in PropChoices, r \in {Undefined, Frag} }

InitScan ==
  /\ \E global \in PropChoices, scoped \in PropChoices, args \in LocalChoices,
        language \in {<<"typescript">>, <<"python">>} :
       InitRun(<< MkDoc("one",
                        Spread(Star :> global, <<"typescript">> :> scoped),
                        << MkSrc(<<"n">>, language, args, << <<"x">> >>, 3) >>)
               >>)
  /\ dryRun = FALSE
  /\ cleanCache = FALSE

SpecScan == InitScan /\ [][NextScan]_vars

(***************************************************************************)
(* Inputs of the index: two documents, of two blocks and of one block,     *)
(* every block with any of the names and noweb-ref / nowebRef args below.  *)
(***************************************************************************)
IndexNames == {Undefined, EmptyStr, <<"a">>, <<"b">>}

IndexArgs ==
  { NoArgs, NowebRefArg("a"), NowebRefArg("b"), "nowebRef" :> <<"a">>,
    Spread(NowebRefArg("a"), "nowebRef" :> <<"b">>) }

IndexSrcs(startLine) ==
  { MkSrc(name, <<"text">>, args, << <<"x">> >>, startLine) :
      name \in IndexNames, args \in IndexArgs }

InitIndex ==
  /\ \E s1 \in IndexSrcs(1), s2 \in IndexSrcs(5), s3 \in IndexSrcs(1) :
       InitRun(<< MkDoc("one", NoArgs, <<s1, s2>>),
                  MkDoc("two", NoArgs, <<s3>>) >>)
  /\ dryRun = FALSE
  /\ cleanCache = FALSE

SpecIndex == InitIndex /\ [][NextScan]_vars

(***************************************************************************)
(* Inputs of the line scanner: one document whose text is any sequence of  *)
(* up to MaxLines lines of LinePool, or one of three longer texts (names   *)
(* and blocks; an example block, an indented and an upper-case directive;  *)
(* escaped content lines), or a block with a tangle value written on its   *)
(* begin_src line or on a PROPERTY line.                                   *)
(***************************************************************************)
MaxLines == 4

NameOf(n) == <<"#+", "name", ":", " ", n>>
BeginOf(lang) == <<"#+", "begin_src", " ", lang>>
EndSrcLine == <<"#+", "end_src">>
BeginExampleLine == <<"#+", "begin_example">>
EndExampleLine == <<"#+", "end_example">>

LinePool ==
  { NameOf("n1"), BeginOf("ts"), EndSrcLine, BeginExampleLine,
    EndExampleLine, <<" ">> \o EndSrcLine, <<",">> \o EndSrcLine, <<"code">> }

NamesText ==
  << NameOf("n1"), NameOf("n2"), BeginOf("ts"), <<"code">>, EndSrcLine,
     BeginOf("ts"), EndSrcLine >>

ExampleText ==
  << NameOf("n1"), BeginExampleLine, NameOf("n2"), BeginOf("ts"), <<"code">>,
     EndSrcLine, EndExampleLine, <<" ">> \o BeginOf("ts"),
     <<"#+", "BEGIN_SRC", " ", "ts">>, BeginExampleLine, <<"in">>,
     <<"#+", "END_SRC">> >>

EscapeText ==
  << BeginOf("ts"),
     <<",", "#+", "begin_src", " ", "x">>,
     <<",", ",", "#+", "end_src">>,
     <<",", "x", Backtick, ",", "#+", "y">>,
     <<"z", Backtick, ",", "#+", "w">>,
     <<",", "*", " ", "h">>,
     <<>>,
     EndSrcLine >>

TangleLangs == {"typescript", "python", "unknown"}

\* the tangle values written; the empty one stands for no tangle at all
TangleValues ==
  { <<>>, <<"no">>, <<"yes">>, <<"t">>, <<"nil">>, <<"NO">>,
    <<"out", ".", "ts">>, <<"no", "-", "build", "/", "x", ".", "ts">>,
    <<"yes", ".", "ts">>, <<"\"", "q", ".", "ts", "\"">>,
    <<"sub", "/", "out", ".", "ts">> }

TangleText(lang, value, viaProperty) ==
  IF value = <<>> THEN << BeginOf(lang), <<"x">>, EndSrcLine >>
  ELSE IF viaProperty
  THEN << <<"#+", "PROPERTY", ":", " ", "header-args", " ", ":", "tangle",
            " ">> \o value,
          BeginOf(lang), <<"x">>, EndSrcLine >>
  ELSE << BeginOf(lang) \o <<" ", ":", "tangle", " ">> \o value, <<"x">>,
          EndSrcLine >>

ScanTexts ==
  UNION { [1..n -> LinePool] : n \in 1..MaxLines }
    \cup {NamesText, ExampleText, EscapeText}
    \cup { TangleText(lang, value, viaProperty) :
             lang \in TangleLangs, value \in TangleValues,
             viaProperty \in BOOLEAN }

InitLines ==
  /\ \E text \in ScanTexts :
       InitRun(<< [path |-> <<"/", "p", "/", "doc", ".", "org">>,
                   text |-> text] >>)
  /\ dryRun = FALSE
  /\ cleanCache = FALSE

NextLines ==
  \/ ScanFile
  \/ BeginExample
  \/ EndExample
  \/ SkipInExample
  \/ NameLine
  \/ BeginSrc
  \/ EndSrc
  \/ ContentLine
  \/ DiscardLine
  \/ ScanReturn
  \/ BuildIndex
  \/ GroupTargets

SpecLines == InitLines /\ [][NextLines]_vars

(***************************************************************************)
(* Inputs of the grouping: two documents of the same directory, of two     *)
(* blocks and of one block; the args of every block are what               *)
(* parseHeaderArgs returns for one of the begin_src lines below.           *)
(***************************************************************************)
GroupHeaders ==
  { <<>>,
    <<" ", ":", "tangle", " ", "no">>,
    <<" ", ":", "tangle", " ">> \o <<"\"", "no", "\"">>,
    <<" ", ":", "tangle", " ", "yes">>,
    <<" ", ":", "tangle", " ">> \o <<"\"", "yes", "\"">>,
    <<" ", ":", "tangle", " ", "a", ".", "ts">>,
    <<" ", ":", "tangle", " ", "b", ".", "ts">>,
    <<" ", ":", "tangle", " ">> \o <<"\"", "\"">>,
    <<" ", ":", "noweb-ref", " ", "frag">>,
    <<" ", ":", "noweb-ref", " ", "frag", " ", ":", "tangle", " ", "a", ".",
      "ts">> }

GroupSrcs(startLine) ==
  { MkSrc(Undefined, <<"typescript">>,
          parseHeaderArgs(BeginOf("typescript") \o header).args,
          << <<"x">> >>, startLine) : header \in GroupHeaders }

InitGroup ==
  /\ \E s1 \in GroupSrcs(1), s2 \in GroupSrcs(5), s3 \in GroupSrcs(1) :
       InitRun(<< MkDoc("one", NoArgs, <<s1, s2>>),
                  MkDoc("two", NoArgs, <<s3>>) >>)
  /\ dryRun = FALSE
  /\ cleanCache = FALSE

SpecGroup == InitGroup /\ [][NextScan]_vars

(***************************************************************************)
(* Properties of the expander.                                             *)
(***************************************************************************)
Range(seq) == {seq[i] : i \in DOMAIN seq}

Infix(part, line) ==
  \E a \in 0..(Len(line) - Len(part)) :
    SubSeq(line, a + 1, a + Len(part)) = part

IsCircularLine(line) ==
  \E p \in DOMAIN line : line[p] = "/* ERROR: Circular reference to "

\* the names whose expansion is in progress, outermost first
OnActiveStack(name) ==
  \E j \in 1..Depth : stack[j].site.active /\ stack[j].site.refName = name

\* C1: expandNoweb, called with an empty active stack on any content over
\* any finite index (self-references, mutual cycles, fan-in, blocks under a
\* name and a different noweb-ref), terminates.
C1_Terminates == <>(pc = "done")

\* a run over an index with a cycle and a block indexed under two keys ended
C1_Witness ==
  /\ pc = "done"
  /\ \E p \in DOMAIN expanded : IsCircularLine(expanded[p])
  /\ \E b \in DOMAIN allBlocks :
       /\ Truthy(allBlocks[b].name)
       /\ Truthy(nowebRefOf(allBlocks[b].headerArgs))
       /\ nowebRefOf(allBlocks[b].headerArgs) # allBlocks[b].name

NoNameTwiceOnStack ==
  \A j, k \in 1..Depth :
    (/\ j # k /\ stack[j].site.active /\ stack[k].site.active)
      => stack[j].site.refName # stack[k].site.refName

\* a step taken at a reference site
MarkerExactlyWhenActive ==
  (AtLine /\ CurMatch.ok) =>
    LET marker == CircularLine(CurTotalIndent, CurMatch.refName,
                               CurMatch.trailing)
    IN  IF OnActiveStack(CurMatch.refName)
        THEN /\ stack' = [stack EXCEPT ![Depth].result = Append(@, marker),
                                       ![Depth].i = @ + 1]
             /\ pc' = "expand"
        ELSE /\ Len(stack') >= Depth
             /\ stack'[Depth].result # Append(Top.result, marker)

AllLinesProcessed ==
  pc = "done" => \A j \in 1..Depth : stack[j].i = Len(stack[j].lines) + 1

\* C2: no name is twice on the active expansion stack; a reference site
\* emits the one line totalIndent + marker + trailing, unexpanded, exactly
\* when its name is on the active stack; the expansion goes on afterwards
\* and every line of the content is processed.
C2_CycleMarker ==
  /\ []NoNameTwiceOnStack
  /\ [][MarkerExactlyWhenActive]_vars
  /\ []AllLinesProcessed

\* a marker was emitted and lines after it were still emitted
C2_Witness ==
  /\ pc = "done"
  /\ \E p \in DOMAIN expanded :
       /\ IsCircularLine(expanded[p])
       /\ p < Len(expanded)
       /\ ~IsCircularLine(expanded[Len(expanded)])

\* the lines emitted so far for the reference site a frame is expanding
SiteLines(f) == (f.site.start + 1)..Len(f.result)

\* C5 as stated: every line emitted for a reference site, separators
\* included, begins with the site's total indent.
C5_EveryLineIndented ==
  \A j \in 1..Depth :
    stack[j].site.active =>
      \A p \in SiteLines(stack[j]) :
        StartsWith(stack[j].result[p], stack[j].site.totalIndent)

SiteLinesIndented ==
  \A j \in 1..Depth :
    stack[j].site.active =>
      \A p \in SiteLines(stack[j]) :
        IF p \in stack[j].seps
        THEN stack[j].result[p] = <<>>
        ELSE StartsWith(stack[j].result[p], stack[j].site.totalIndent)

\* the indent of a call is the total indent of the site that made it, which
\* is the caller's indent followed by the site's own leading whitespace
IndentsCompose ==
  \A j \in 1..Depth :
    /\ stack[j].site.active =>
         stack[j].site.totalIndent =
           stack[j].indent
             \o nowebMatch(stack[j].lines[stack[j].i]).leadingIndent
    /\ j > 1 => stack[j].indent = stack[j - 1].site.totalIndent
    /\ \A p \in DOMAIN stack[j].indent : stack[j].indent[p] = " "

\* a site that emits a single line (cycle marker, unresolved literal)
SingleLineIndented ==
  (AtLine /\ CurMatch.ok /\ Len(stack') = Depth
          /\ stack'[Depth].i = Top.i + 1) =>
    /\ Len(stack'[Depth].result) = Len(Top.result) + 1
    /\ StartsWith(stack'[Depth].result[Len(Top.result) + 1], CurTotalIndent)

\* C5 (amended): every line emitted for a reference site begins with the
\* outer indent followed by the site's own indent, nested indents being
\* concatenated along the chain, except the separator lines between fan-in
\* blocks, which are emitted empty.
C5_IndentExceptSeparators ==
  /\ [](SiteLinesIndented /\ IndentsCompose)
  /\ [][SingleLineIndented]_vars

\* a nested, indented site with fan-in has emitted a separator and a line
C5_Witness ==
  \E j \in 1..Depth :
    /\ stack[j].site.active
    /\ Len(stack[j].indent) > 0
    /\ Len(stack[j].site.totalIndent) > Len(stack[j].indent)
    /\ \E p, q \in SiteLines(stack[j]) :
         p \in stack[j].seps /\ q \notin stack[j].seps /\ q > p

\* the names whose expansion is in progress when frame j runs
SeenAt(j) ==
  { stack[h].site.refName : h \in {g \in 1..j : stack[g].site.active} }

\* the expansions of the blocks ids[1..k], in list order, with one empty
\* line after each of them but the last block of ids
RECURSIVE EmittedUpTo(_, _, _, _)
EmittedUpTo(ids, k, seen, totalIndent) ==
  IF k = 0 THEN <<>>
  ELSE EmittedUpTo(ids, k - 1, seen, totalIndent)
         \o expandNoweb(allBlocks[ids[k]].content, allBlocks, blockIndex,
                        seen, totalIndent)
         \o (IF k < Len(ids) THEN << <<>> >> ELSE <<>>)

FanInEmitted ==
  \A j \in 1..Depth :
    stack[j].site.active =>
      LET ids == IndexGet(blockIndex, stack[j].site.refName)
      IN  SubSeq(stack[j].result, stack[j].site.start + 1,
                 Len(stack[j].result))
            = EmittedUpTo(ids, stack[j].site.k - 1, SeenAt(j),
                          stack[j].site.totalIndent)

\* the positions of the blocks that carry the name as name or as noweb-ref
Carries(name) ==
  { b \in DOMAIN allBlocks :
      \/ allBlocks[b].name = name
      \/ nowebRefOf(allBlocks[b].headerArgs) = name }

ListsInDiscoveryOrder ==
  \A name \in DOMAIN blockIndex :
    LET ids == blockIndex[name]
    IN  /\ \A p, q \in DOMAIN ids : p < q => ids[p] < ids[q]
        /\ Range(ids) = Carries(name)

\* C11: expanding a reference to NAME emits the expansions of the blocks
\* listed under NAME in discovery order (the order of allBlocks), with
\* exactly one empty line between two successive blocks and none after the
\* last.
C11_FanInOrder == FanInEmitted /\ ListsInDiscoveryOrder

\* a site with two blocks that are not neighbours in allBlocks is complete
C11_Witness ==
  \E j \in 1..Depth :
    /\ stack[j].site.active
    /\ LET ids == IndexGet(blockIndex, stack[j].site.refName)
       IN  /\ Len(ids) >= 2
           /\ stack[j].site.k > Len(ids)
           /\ ids[2] > ids[1] + 1
           /\ allBlocks[ids[1]].content # allBlocks[ids[2]].content

\* the step taken at a reference site whose name the index does not hold
UnresolvedStaysLiteral ==
  (/\ AtLine /\ CurMatch.ok
   /\ \/ CurMatch.refName \notin DOMAIN blockIndex
      \/ blockIndex[CurMatch.refName] = <<>>
   /\ ~OnActiveStack(CurMatch.refName)) =>
    LET literal == Top.indent \o CurMatch.leadingIndent \o <<"<", "<">>
                     \o CurMatch.refName \o <<">", ">">> \o CurMatch.trailing
    IN  /\ literal = Top.indent \o Top.lines[Top.i]
        /\ stack' = [stack EXCEPT ![Depth].result = Append(@, literal),
                                  ![Depth].i = @ + 1]
        /\ pc' = "expand"

\* C15: a reference site whose name is absent from the index (or mapped to
\* an empty list) and not on the active stack emits exactly one line,
\* totalIndent + "<<NAME>>" + trailing, and the lines after it are still
\* expanded.
C15_UnresolvedLiteral ==
  /\ [][UnresolvedStaysLiteral]_vars
  /\ []AllLinesProcessed

\* an indented unresolved site with trailing text, and lines after it
C15_Witness ==
  /\ pc = "done"
  /\ \E p \in DOMAIN expanded :
       /\ p < Len(expanded)
       /\ expanded[p][1] = " "
       /\ Infix(Ref("c") \o <<"?">>, expanded[p])

SiteComplete ==
  /\ pc = "expand" /\ Depth >= 1 /\ Top.site.active
  /\ Top.site.k > Len(SiteReferenced)

\* the step that ends a resolved reference site
TrailingOnLastLine ==
  SiteComplete =>
    LET old == Top.result
        trailing == nowebMatch(Top.lines[Top.i]).trailing
    IN  /\ Len(stack') = Depth
        /\ Len(old) > Top.site.start
        /\ stack'[Depth].result =
             [p \in DOMAIN old |->
                IF p = Len(old) THEN old[p] \o trailing ELSE old[p]]

\* no other step changes a line that was emitted
EmittedLinesKept ==
  ~SiteComplete =>
    \A j \in 1..Depth :
      j <= Len(stack') =>
        /\ Len(stack'[j].result) >= Len(stack[j].result)
        /\ \A p \in DOMAIN stack[j].result :
             stack'[j].result[p] = stack[j].result[p]

\* C20: the trailing text of a resolved reference site is appended exactly
\* once, to the last line emitted for the site, and to no other line; with
\* empty trailing text no emitted line is changed.
C20_TrailingOnce == [][TrailingOnLastLine /\ EmittedLinesKept]_vars

\* the outermost call has ended a site of several lines with trailing text
C20_Witness ==
  /\ pc = "expand" /\ Depth = 1 /\ ~Top.site.active /\ Top.i = 2
  /\ nowebMatch(Top.lines[1]).trailing = <<";">>
  /\ Len(Top.result) >= 2
  /\ EndsWith(Top.result[Len(Top.result)], <<";">>)
  /\ ~EndsWith(Top.result[1], <<";">>)

(***************************************************************************)
(* Properties of a run of main.                                            *)
(***************************************************************************)
\* the blocks, as extractBlocks returns them, of the first n documents that
\* were read without error, in list order
RECURSIVE Scanned(_)
Scanned(n) ==
  IF n = 0 THEN <<>>
  ELSE Scanned(n - 1)
         \o (IF n \in readErrors THEN <<>> ELSE extractBlocks(orgFiles[n]))

\* the source blocks they were opened from
RECURSIVE ScannedSrcs(_)
ScannedSrcs(n) ==
  IF n = 0 THEN <<>>
  ELSE ScannedSrcs(n - 1)
         \o (IF n \in readErrors THEN <<>> ELSE orgFiles[n].srcs)

AllScanned == Scanned(Len(orgFiles))
AllSrcs == ScannedSrcs(Len(orgFiles))
AfterScan == pc \in {"group", "write", "done", "exit"}
InSomeTarget(i) == \E t \in DOMAIN targets : i \in Range(targets[t].blocks)

\* C3: a block whose effective args carry noweb-ref (or nowebRef) and whose
\* own begin_src line has no tangle key is in the block list of no target,
\* wherever the noweb-ref or a tangle value comes from.
C3_NowebRefIsolation ==
  pc = "write" =>
    \A i \in DOMAIN allBlocks :
      (/\ Truthy(nowebRefOf(allBlocks[i].headerArgs))
       /\ "tangle" \notin DOMAIN AllSrcs[i].args)
        => ~InSomeTarget(i)

\* C4: after the scan every block keeps the content and args it had when
\* extractBlocks returned, whatever targets have been generated.
C4_BlocksImmutable == AfterScan => allBlocks = AllScanned

\* C6: a failing mkdir or write aborts that target alone; every other
\* target of the run is still generated and written.
C6_WriteFailureIsolated ==
  (pc \in {"done", "exit"} /\ ~dryRun) =>
    \A t \in DOMAIN targets :
      \/ pc = "exit" /\ t = targetIdx
      \/ /\ t \in DOMAIN outputs
         /\ targets[t].path \in DOMAIN disk

\* the step that reports a read error goes on with the next document
ReadErrorContinues ==
  readErrors' # readErrors =>
    /\ pc' = "read"
    /\ fileIdx' = fileIdx + 1
    /\ allBlocks' = allBlocks
    /\ exitCode' = -1

\* C7: a document whose read throws contributes no blocks; every other
\* document is scanned in list order, indexed and tangled, and the run does
\* not stop at the failing document.
C7_ReadFailureIsolated ==
  /\ [](pc = "read" => allBlocks = Scanned(fileIdx - 1))
  /\ [](pc = "group" => /\ allBlocks = AllScanned
                        /\ blockIndex = buildBlockIndex(AllScanned))
  /\ [](pc \in {"write", "done", "exit"} =>
          /\ blockIndex = buildBlockIndex(AllScanned)
          /\ targets = groupByTarget(AllScanned))
  /\ [](pc = "exit" => targetIdx \in DOMAIN targets)
  /\ [](pc = "done" => DOMAIN outputs = DOMAIN targets)
  /\ [][ReadErrorContinues]_vars

\* the first document failed, a later one was scanned and tangled
C7_Witness ==
  /\ pc = "done"
  /\ 1 \in readErrors
  /\ Len(orgFiles) > 1
  /\ allBlocks # <<>>
  /\ outputs # <<>>

Keys == {"tangle", "noweb-ref", "nowebRef", "comments"}

Precedence(key, local, scoped, global) ==
  IF key \in DOMAIN local THEN local[key]
  ELSE IF key \in DOMAIN scoped THEN scoped[key]
  ELSE Get(global, key)

EffectiveAsClaimed(block, src, props) ==
  LET local == src.args
      scoped == PropsFor(props, src.language)
      global == PropsFor(props, Star)
      forced == /\ \/ Truthy(Get(local, "noweb-ref"))
                   \/ Truthy(Get(local, "nowebRef"))
                /\ "tangle" \notin DOMAIN local
  IN  \A key \in Keys :
        /\ Get(block.headerArgs, key) =
             IF key = "tangle" /\ forced THEN <<"no">>
             ELSE Precedence(key, local, scoped, global)
        /\ key \in DOMAIN block.headerArgs <=>
             \/ key \in DOMAIN local \cup DOMAIN scoped \cup DOMAIN global
             \/ key = "tangle" /\ forced

GlobalALocalB(src, props) ==
  /\ Get(PropsFor(props, Star), "tangle") = <<"a", ".", "ts">>
  /\ Get(src.args, "tangle") = <<"b", ".", "ts">>

TargetOf(i) == CHOOSE t \in DOMAIN targets : i \in Range(targets[t].blocks)

\* C8: the effective value of every key is the block's own value if it has
\* one, else the language-scoped file property, else the global one, but
\* for tangle = "no" forced by a block-local noweb-ref without tangle; with
\* global tangle a.ts and block-local tangle b.ts the block is grouped
\* under b.ts and not under a.ts.
C8_InheritancePrecedence ==
  \A i \in DOMAIN allBlocks :
    /\ EffectiveAsClaimed(allBlocks[i], AllSrcs[i], orgFiles[1].props)
    /\ (pc = "write" /\ GlobalALocalB(AllSrcs[i], orgFiles[1].props)) =>
         /\ InSomeTarget(i)
         /\ \A t \in DOMAIN targets :
              i \in Range(targets[t].blocks) <=>
                targets[t].path = <<"/", "p", "/", "b", ".", "ts">>

\* global a.ts, a language-scoped value in between, block-local b.ts
C8_Witness ==
  /\ pc = "write"
  /\ \E i \in DOMAIN allBlocks :
       /\ GlobalALocalB(AllSrcs[i], orgFiles[1].props)
       /\ "tangle" \in DOMAIN PropsFor(orgFiles[1].props, AllSrcs[i].language)
       /\ InSomeTarget(i)
       /\ targets[TargetOf(i)].path = <<"/", "p", "/", "b", ".", "ts">>

\* the names referenced by the lines of a content
RefNames(content) ==
  { nowebMatch(content[k]).refName :
      k \in {h \in DOMAIN content : nowebMatch(content[h]).ok} }

BlocksUnder(index, names) == UNION { Range(IndexGet(index, n)) : n \in names }

\* the names reachable through nested references
RECURSIVE ReachNames(_, _, _)
ReachNames(names, blocks, index) ==
  LET more == names \cup UNION { RefNames(blocks[id].content) :
                                   id \in BlocksUnder(index, names) }
  IN  IF more = names THEN names ELSE ReachNames(more, blocks, index)

DirectRefs(ids, blocks) ==
  UNION { RefNames(blocks[id].content) : id \in Range(ids) }

TargetRefs(ids, blocks, index) ==
  ReachNames(DirectRefs(ids, blocks), blocks, index)

\* every non-reference line of content occurs in out (indented, and with
\* trailing text appended if it ends a reference site)
IncludesLines(out, content) ==
  \A k \in DOMAIN content :
    ~nowebMatch(content[k]).ok =>
      \E p \in DOMAIN out : Infix(content[k], out[p])

NowebRefNoTangle(i) ==
  /\ Truthy(nowebRefOf(allBlocks[i].headerArgs))
  /\ "tangle" \notin DOMAIN AllSrcs[i].args

IncludedWhenGenerated ==
  (AtTarget /\ Len(outputs') = Len(outputs) + 1
            /\ ~isOrgTarget(CurTarget.path)) =>
    \A i \in DOMAIN allBlocks :
      (/\ NowebRefNoTangle(i)
       /\ nowebRefOf(allBlocks[i].headerArgs)
            \in TargetRefs(CurTarget.blocks, allBlocks, blockIndex))
        => IncludesLines(outputs'[Len(outputs')].content,
                         allBlocks[i].content)

KeysOf(block) ==
  LET nowebRef == nowebRefOf(block.headerArgs)
  IN  (IF Truthy(block.name) THEN {block.name} ELSE {})
        \cup (IF Truthy(nowebRef) /\ nowebRef # block.name
              THEN {nowebRef} ELSE {})

\* C19: after buildBlockIndex a block is listed under its name, if it has
\* one, and under its noweb-ref, if it has one that differs from the name,
\* and under no other key; no list holds a block twice, no list is empty and
\* every list is in discovery order.
C19_IndexMembership ==
  pc = "group" =>
    /\ \A i \in DOMAIN allBlocks :
         { key \in DOMAIN blockIndex : i \in Range(blockIndex[key]) }
           = KeysOf(allBlocks[i])
    /\ \A key \in DOMAIN blockIndex :
         LET ids == blockIndex[key]
         IN  /\ ids # <<>>
             /\ Range(ids) \subseteq DOMAIN allBlocks
             /\ \A p, q \in DOMAIN ids : p < q => ids[p] < ids[q]

\* a block with equal name and noweb-ref, a block under two keys, and a list
\* of blocks from both documents
C19_Witness ==
  /\ pc = "group" /\ Len(allBlocks) = 3
  /\ allBlocks[1].name = <<"a">>
  /\ nowebRefOf(allBlocks[1].headerArgs) = <<"a">>
  /\ Cardinality(KeysOf(allBlocks[2])) = 2
  /\ blockIndex[<<"a">>] = <<1, 2, 3>>

\* C17: in a dry run no step creates a directory, writes a file or deletes
\* a cache file, the run does not fail, and when it ends a content has been
\* generated for every target.
C17_DryRunNoEffects ==
  /\ [][dryRun => /\ disk' = disk /\ dirs' = dirs
                  /\ cacheFiles' = cacheFiles]_vars
  /\ [](dryRun => disk = <<>> /\ pc # "exit")
  /\ []((dryRun /\ pc = "done") =>
          /\ Len(outputs) = Len(targets)
          /\ \A t \in DOMAIN targets : outputs[t].path = targets[t].path)

\* a dry run with cleaning on ended; it has a target in a missing directory
C17_Witness ==
  /\ pc = "done" /\ dryRun /\ cleanCache
  /\ cacheFiles # {}
  /\ Len(outputs) >= 2
  /\ \E t \in DOMAIN targets : dirname(targets[t].path) \notin dirs

\* the documents that were read, in list order
RECURSIVE ReadDocs(_)
ReadDocs(n) ==
  IF n = 0 THEN <<>>
  ELSE ReadDocs(n - 1) \o (IF n \in readErrors THEN <<>> ELSE <<orgFiles[n]>>)

DefinedNames(doc) == DOMAIN buildBlockIndex(extractBlocks(doc))
ReferencedNames(doc) ==
  UNION { RefNames(doc.srcs[k].content) : k \in DOMAIN doc.srcs }
TargetPaths(doc) ==
  LET tgts == groupByTarget(extractBlocks(doc))
  IN  { tgts[t].path : t \in DOMAIN tgts }

\* no common target path, no common index name, no reference to a name
\* the other document defines
Unrelated(d, e) ==
  /\ TargetPaths(d) \cap TargetPaths(e) = {}
  /\ DefinedNames(d) \cap DefinedNames(e) = {}
  /\ ReferencedNames(d) \cap DefinedNames(e) = {}
  /\ ReferencedNames(e) \cap DefinedNames(d) = {}

PairwiseUnrelated(files) ==
  \A i, j \in DOMAIN files : i # j => Unrelated(files[i], files[j])

Permuted(files) ==
  { [i \in DOMAIN files |-> files[perm[i]]] :
      perm \in { f \in [DOMAIN files -> DOMAIN files] : Injective(f) } }

\* the same target paths, each with the same content
SameTargets(a, b) ==
  /\ { a[t].path : t \in DOMAIN a } = { b[t].path : t \in DOMAIN b }
  /\ \A t \in DOMAIN a, u \in DOMAIN b :
       a[t].path = b[u].path => a[t].content = b[u].content

\* C12: when the documents of a run are pairwise unrelated, the run over
\* any permutation of the document list generates the same content for
\* every target.
C12_OrderStable ==
  (pc = "done" /\ PairwiseUnrelated(ReadDocs(Len(orgFiles)))) =>
    \A files \in Permuted(ReadDocs(Len(orgFiles))) :
      SameTargets(outputs, tangleAll(files))

\* two unrelated documents were tangled; the other order generates the
\* targets in another order
C12_Witness ==
  /\ pc = "done" /\ readErrors = {} /\ Len(orgFiles) = 2
  /\ PairwiseUnrelated(orgFiles)
  /\ Len(outputs) >= 3
  /\ tangleAll(<<orgFiles[2], orgFiles[1]>>) # outputs
  /\ \E t \in DOMAIN outputs : getCommentPrefix(outputs[t].path) = <<"//">>

(***************************************************************************)
(* Properties of the line scanner and the header parser.                   *)
(***************************************************************************)
SkipValues == {<<"no">>, <<"nil">>, <<"NO">>}
DeriveValues == {<<"yes">>, <<"t">>}

Unquoted(value) ==
  IF value[1] = "\"" THEN SubSeq(value, 2, Len(value) - 1) ELSE value

\* the targets the rule gives a document of one block with the tangle value
TargetsAsClaimed(lang, value) ==
  IF value = <<>> \/ value \in SkipValues THEN <<>>
  ELSE << [path |-> IF value \in DeriveValues
                    THEN <<"/", "p", "/", "doc">>
                           \o getExtensionForLanguage(<<lang>>)
                    ELSE <<"/", "p", "/">> \o Unquoted(value),
           blocks |-> <<1>>] >>

\* C13: a block whose tangle is absent or a no / false flag is in no
\* target; a yes / true flag gives the document path without .org plus the
\* extension of the language; every other value written (out.ts,
\* no-build/x.ts, yes.ts) gives that value resolved against the directory
\* of the document.
C13_TangleRule ==
  pc = "write" =>
    \A lang \in TangleLangs, value \in TangleValues, viaProperty \in BOOLEAN :
      orgFiles[1].text = TangleText(lang, value, viaProperty)
        => targets = TargetsAsClaimed(lang, value)

\* the scanner stands at a content line that begins with a comma
AtEscapedLine ==
  /\ pc = "scan" /\ scanner.i <= Len(scanner.lines)
  /\ scanner.inBlock
  /\ CurLine # <<>> /\ CurLine[1] = ","

\* the lines appended to the content of a block that is still open
LinesOf(content) == Take(content, Len(content) - 1)

\* the step appends emitted and neither opens nor closes a block
AppendsOnly(emitted) ==
  /\ scanner'.inBlock
  /\ scanner'.blocks = scanner.blocks
  /\ Len(scanner'.currentBlock) = 1
  /\ scanner'.currentBlock[1].startLine = scanner.currentBlock[1].startLine
  /\ LinesOf(scanner'.currentBlock[1].content)
       = Append(LinesOf(scanner.currentBlock[1].content), emitted)

\* C14 as stated: a content line that begins with a comma is appended with
\* exactly one comma removed, and does not open or close a block.
C14_OneCommaRemoved == [][AtEscapedLine => AppendsOnly(Tail(CurLine))]_vars

\* a comma that stands between a backtick and the sigil #+
TemplateCommaAt(line, p) ==
  /\ line[p] = ","
  /\ p > 1 /\ line[p - 1] = Backtick
  /\ p < Len(line) /\ line[p + 1] = "#+"

RECURSIVE DropTemplateCommas(_, _)
DropTemplateCommas(line, p) ==
  IF p > Len(line) THEN <<>>
  ELSE (IF TemplateCommaAt(line, p) THEN <<>> ELSE <<line[p]>>)
         \o DropTemplateCommas(line, p + 1)

\* C14 (amended): a content line that begins with a comma is appended with
\* that one leading comma removed and, besides, with every comma removed
\* that stands between a backtick and #+; nothing else is changed, and the
\* line does not open or close a block.
C14_EscapeStripped ==
  [][AtEscapedLine => AppendsOnly(DropTemplateCommas(Tail(CurLine), 1))]_vars

\* the block of the escaped text was returned
C14_Witness ==
  /\ pc = "write" /\ Len(allBlocks) = 1
  /\ allBlocks[1].content =
       << <<"#+", "begin_src", " ", "x">>, <<",", "#+", "end_src">>,
          <<"x", Backtick, "#+", "y">>, <<"z", Backtick, "#+", "w">>,
          <<"*", " ", "h">>, <<>> >>

\* a directive at column zero
IsDirective(line, word) ==
  Len(line) >= 2 /\ line[1] = "#+" /\ Lower(line[2]) = word

IsNameDirective(line) ==
  IsDirective(line, "name") /\ Len(line) >= 3 /\ line[3] = ":"

\* the scanner as the specification describes it: its state after the
\* first n lines, and the line of the name that is pending (0 for none)
RECURSIVE Outline(_, _)
Outline(lines, n) ==
  IF n = 0 THEN [mode |-> "Outside", pending |-> 0]
  ELSE
    LET o == Outline(lines, n - 1)
        line == lines[n]
    IN  CASE o.mode = "Outside" /\ IsDirective(line, "begin_example") ->
               [o EXCEPT !.mode = "InExample"]
          [] o.mode = "InExample" /\ IsDirective(line, "end_example") ->
               [o EXCEPT !.mode = "Outside"]
          [] o.mode = "Outside" /\ IsNameDirective(line) ->
               [o EXCEPT !.pending = n]
          [] o.mode = "Outside" /\ IsDirective(line, "begin_src") ->
               [mode |-> "InSrc", pending |-> 0]
          [] o.mode = "InSrc" /\ IsDirective(line, "end_src") ->
               [o EXCEPT !.mode = "Outside"]
          [] OTHER -> o

NameAt(lines, p) == IF p = 0 THEN Undefined ELSE trim(Drop(lines[p], 3))

\* the blocks opened so far, in the order they were opened
Opened == scanner.blocks \o scanner.currentBlock

\* the line of the name directive bound to the k-th block opened
BoundLine(k) == Outline(scanner.lines, Opened[k].startLine).pending

Scanning == pc = "scan"

\* C16: the blocks are in document order; a block is named by the name
\* directive that is pending when its begin_src opens it, and has no name
\* if none is; opening a block clears the pending name, so that a name
\* directive binds to at most one block, the next one opened.
C16_NameBinding ==
  /\ Scanning =>
       /\ \A k \in DOMAIN Opened :
            /\ IsDirective(scanner.lines[Opened[k].startLine + 1],
                           "begin_src")
            /\ Outline(scanner.lines, Opened[k].startLine).mode = "Outside"
            /\ Opened[k].name = NameAt(scanner.lines, BoundLine(k))
       /\ \A k, l \in DOMAIN Opened :
            /\ k < l => Opened[k].startLine < Opened[l].startLine
            /\ (k # l /\ BoundLine(k) # 0) => BoundLine(k) # BoundLine(l)
       /\ scanner.currentName =
            NameAt(scanner.lines,
                   Outline(scanner.lines, scanner.i - 1).pending)
       /\ Len(Opened) =
            Cardinality({ n \in 1..(scanner.i - 1) :
                            Outline(scanner.lines, n).mode = "InSrc"
                              /\ Outline(scanner.lines, n - 1).mode
                                   = "Outside" })
  /\ (pc \in {"read", "group", "write"} /\ fileIdx > 1) =>
       allBlocks = scanner.blocks

\* of two name directives the later one named the first block, and the
\* second block has no name
C16_Witness ==
  /\ pc = "write"
  /\ orgFiles[1].text = NamesText
  /\ Len(allBlocks) = 2
  /\ allBlocks[1].name = <<"n2">>
  /\ allBlocks[2].name = Undefined

Mode(sc) ==
  IF sc.inBlock THEN "InSrc"
  ELSE IF sc.inExampleBlock THEN "InExample"
  ELSE "Outside"

StateChangesOnDirectives ==
  (Scanning /\ pc' = "scan" /\ Mode(scanner') # Mode(scanner)) =>
    \E word \in {"begin_src", "end_src", "begin_example", "end_example"} :
      IsDirective(CurLine, word)

ExampleLinesIgnored ==
  (Scanning /\ pc' = "scan" /\ scanner.inExampleBlock) =>
    /\ scanner'.blocks = scanner.blocks
    /\ scanner'.currentName = scanner.currentName
    /\ scanner'.currentBlock = scanner.currentBlock
    /\ scanner'.inBlock = scanner.inBlock

\* C18: inBlock and inExampleBlock are never both true, and the state they
\* give (Outside, InExample or InSrc) is the one the specification's
\* transitions give; the state changes only at a directive line that
\* starts at column zero; a line read in InExample does not open, name,
\* close or extend a block.
C18_ScannerStates ==
  /\ [](Scanning =>
          /\ ~(scanner.inBlock /\ scanner.inExampleBlock)
          /\ scanner.inBlock <=> scanner.currentBlock # <<>>
          /\ Mode(scanner) = Outline(scanner.lines, scanner.i - 1).mode)
  /\ [][StateChangesOnDirectives /\ ExampleLinesIgnored]_vars

\* the text with a block inside an example, an indented begin_src and an
\* upper-case one was scanned: only the last opened a block
C18_Witness ==
  /\ pc = "write"
  /\ orgFiles[1].text = ExampleText
  /\ Len(allBlocks) = 1
  /\ allBlocks[1].startLine = 8
  /\ allBlocks[1].content = << BeginExampleLine, <<"in">> >>

ShebangArgOf(block) == Get(block.headerArgs, "shebang")

\* C10: if a contributing block has a shebang arg, the value of the first
\* such block is the first line of the output; otherwise, if the content
\* of the first block begins with #!, that line is the first line of the
\* output and occurs once in it; otherwise the output has no shebang line.
C10_ShebangResolution ==
  \A t \in DOMAIN outputs :
    LET ids == targets[t].blocks
        out == outputs[t].content
        withArg == {j \in DOMAIN ids : Truthy(ShebangArgOf(AllScanned[ids[j]]))}
        firstLine == AllScanned[ids[1]].content[1]
    IN  IF withArg # {}
        THEN out[1] = ShebangArgOf(AllScanned[ids[
                        CHOOSE j \in withArg : \A h \in withArg : j <= h]])
        ELSE IF StartsWith(firstLine, <<"#!">>)
        THEN /\ out[1] = firstLine
             /\ Cardinality({p \in DOMAIN out : out[p] = firstLine}) = 1
        ELSE ~StartsWith(out[1], <<"#!">>)

(***************************************************************************)
(* The Set visited across calls of expandNoweb.                            *)
(***************************************************************************)
\* a call returns: its frame is dropped, or the outermost call ends the run
CallReturns == Returning /\ (pc' = "done" \/ Len(stack') < Depth)

\* the Set holds at the return what it held when the call was made
ReturnsBalanced ==
  CallReturns => (visited = Top.visitedAtCall /\ visited' = Top.visitedAtCall)

\* the step that ends the expansion of a reference site
EndsSite ==
  /\ pc = "expand" /\ Depth >= 1 /\ Top.site.active
  /\ Len(stack') = Depth /\ ~stack'[Depth].site.active

\* the lines a site has emitted are the whole expansion of its blocks under
\* the names the call was made with and the name of the site: they do not
\* depend on what was expanded before the site
SiteExpandedInFull ==
  EndsSite =>
    LET ids == SiteReferenced
        whole == EmittedUpTo(ids, Len(ids),
                             Top.visitedAtCall \cup {Top.site.refName},
                             Top.site.totalIndent)
        got == SubSeq(stack'[Depth].result, Top.site.start + 1,
                      Len(stack'[Depth].result))
    IN  /\ Len(got) = Len(whole)
        /\ \A p \in 1..(Len(whole) - 1) : got[p] = whole[p]
        /\ got[Len(got)] = whole[Len(whole)] \o Top.site.trailing
        /\ visited' = Top.visitedAtCall

\* the names the blocks under a name refer to, directly or through others
ReachedFrom(name) ==
  ReachNames(DirectRefs(IndexGet(blockIndex, name), allBlocks), allBlocks,
             blockIndex)

\* no name the outermost content reaches refers back to itself
Acyclic ==
  \A n \in ReachNames(RefNames(stack[1].lines), allBlocks, blockIndex) :
    n \notin ReachedFrom(n)

NoMarkerWithoutCycle ==
  (pc = "done" /\ Acyclic) =>
    \A p \in DOMAIN expanded : ~IsCircularLine(expanded[p])

\* C21: when a call of expandNoweb returns, the Set visited holds the names
\* it held when the call was made; so a site is expanded in full whatever
\* was expanded before it, and a content whose references have no cycle
\* (sibling sites of one name and diamonds included) gets no cycle marker.
C21_StackBalanced ==
  /\ [][ReturnsBalanced /\ SiteExpandedInFull]_vars
  /\ []NoMarkerWithoutCycle

\* c was expanded at two sibling sites of d and again through b
C21_Witness ==
  /\ pc = "done"
  /\ stack[1].lines = << Ref("d"), <<" ">> \o Ref("b") >>
  /\ expanded = << <<"v">>, <<" ", "v">>, <<" ", " ", "v", "?">> >>
  /\ visited = {}

(***************************************************************************)
(* The targets groupByTarget returns.                                      *)
(***************************************************************************)
\* the targets whose list holds the block at position i of allBlocks
TargetsHolding(i) ==
  { t \in DOMAIN targets : i \in Range(targets[t].blocks) }

EffectiveTangle(i) == Get(allBlocks[i].headerArgs, "tangle")

TanglePresent(i) == "tangle" \in DOMAIN allBlocks[i].headerArgs

Grouped == pc = "write"

\* no block twice, in one list or in two; every list in discovery order
DisjointInOrder ==
  /\ \A i \in DOMAIN allBlocks : Cardinality(TargetsHolding(i)) <= 1
  /\ \A t \in DOMAIN targets :
       /\ targets[t].blocks # <<>>
       /\ \A p, q \in DOMAIN targets[t].blocks :
            p < q => targets[t].blocks[p] < targets[t].blocks[q]

\* C22 as stated: every block is in the list of at most one target; a
\* block is in some target exactly when its effective tangle is present and
\* is neither "no" nor false; the blocks of a target are in discovery
\* order.
C22_TargetsPartition ==
  Grouped =>
    /\ DisjointInOrder
    /\ \A i \in DOMAIN allBlocks :
         TargetsHolding(i) # {}
           <=> (/\ TanglePresent(i)
                /\ EffectiveTangle(i) \notin {<<"no">>, JsFalse})

\* C22 (amended): every block is in the list of at most one target; a
\* block is in some target exactly when its effective tangle is present, is
\* not the empty string and is neither "no" nor false; the blocks of a
\* target are in discovery order.
C22_TargetsPartitionNonEmpty ==
  Grouped =>
    /\ DisjointInOrder
    /\ \A i \in DOMAIN allBlocks :
         TargetsHolding(i) # {}
           <=> (/\ TanglePresent(i)
                /\ EffectiveTangle(i) \notin {<<"no">>, JsFalse, EmptyStr})

\* the first and the third block share a target, the second, whose tangle
\* is the empty string, is in none
C22_Witness ==
  /\ Grouped
  /\ Len(allBlocks) = 3
  /\ TanglePresent(2) /\ EffectiveTangle(2) = EmptyStr
  /\ TargetsHolding(2) = {}
  /\ \E t \in DOMAIN targets : targets[t].blocks = <<1, 3>>

====
